---- MODULE Spec2Model ----
(***************************************************************************)
(* Model of the VideoEditor playback / compositing / export engine and of  *)
(* the timeline interaction controller.                                    *)
(*                                                                         *)
(* Time is counted in centiseconds (1 = 0.01 s = 10 ms): 0.1 s = 10,       *)
(* 0.25 s = 25, 500 ms = 50, one frame at 25 fps = 4.                      *)
(*                                                                         *)
(* The module holds several specifications over one set of variables:     *)
(*   SpecEdit    descriptor editing (App handlers, Timeline drags) and    *)
(*               the Player's media-element reconcile effect;             *)
(*   SpecSync    the per-tick alignment of one decode unit;               *)
(*   SpecExport  the export pipeline, the render loop and its timers,     *)
(*               with a host that may cancel the export;                  *)
(*   SpecHosted  the export as App hosts it, with the browser's           *)
(*               scheduling as fairness;                                   *)
(*   SpecTransport  play/pause, loop and seek around one export;          *)
(*   SpecEncoder    one export on every kind of encoder support;          *)
(*   SpecCompose    what a tick draws and the gains it sets on loaded     *)
(*                  timelines of several clips;                           *)
(*   SpecTimeline   the Timeline's mouse and touch controller;            *)
(*   SpecMarkers    the in and out markers and the split of a loaded      *)
(*                  clip;                                                 *)
(*   SpecClock      every way the master clock is set;                    *)
(*   SpecReinit     an export whose effect runs again before the          *)
(*                  recorder exists.                                      *)
(***************************************************************************)
EXTENDS Integers, Sequences, FiniteSets, TLC

\* ------------------------------------------------------------------ bounds
MaxClipIds == 2          \* ids that crypto.randomUUID() hands out in a run
MaxOffset == 20          \* largest timeline offset a move drag reaches
MaxDrags == 1            \* pointer presses on clips or trim handles in a run
MaxClock == 50           \* largest master clock position a playback tick reaches
MaxExportClock == 22     \* largest master clock position an export tick reaches
MaxAttempts == 1         \* export requests in a run
MaxPending == 1          \* initialisations waiting on the audio context
MaxTouches == 2          \* fingers put on clips in a run
MaxReruns == 1           \* re-runs of the export effect before a recorder exists

\* ------------------------------------------------------- program constants
MinClipLen == 10         \* 0.1 s minimum clip length of a trim drag
TextClipDuration == 500  \* duration: 5 of a new text clip
DurationPadding == 1000  \* newEndTime + 10 of the workspace duration
InitialDuration == 3000  \* duration: 30, the initial workspace duration
LooseTol == 25           \* 0.25 s resync tolerance of a playing unit
ParkTol == 5             \* 0.05 s tolerance of a paused or parked unit
ScrubTol == 1            \* 0.01 s tolerance while scrubbing
LookAhead == 100         \* 1.0 s warm-up window
DtCap == 10              \* dt > 0.1 is capped to 0.1
UiThrottle == 10         \* onTimeUpdate at most every 100 ms
SyncEpsilon == 1         \* 0.01 s fallback sync of the paused clock
HaveMetadata == 1        \* readyState HAVE_METADATA
HaveCurrentData == 2     \* readyState HAVE_CURRENT_DATA
DefaultFps == 25         \* DEFAULT_FPS
PlaybackSpeed == 1       \* playbackSpeedRef, never reassigned
GraceDelay == 50         \* setTimeout(..., 500)
NoRec == 0               \* mediaRecorderRef.current === null
NoTime == -1             \* a null marker or a null lastTimeRef

\* ------------------------------------------------------------ input sets
NoId == 0
LibraryDurations == {20}
LibraryTypes == {"video", "audio"}
SeekTimes == {5, 15}
DragDeltas == {-20, 5}
TransitionDurations == {10}
TransitionKinds == {"cut", "dissolve"}
\* wall-clock time between two events of the playback loop
Elapse == {5}
\* wall-clock time between two events of an export
ExportElapse == {25}
\* project.fps, two of FRAME_RATES
FrameRates == {25, 50}
\* playhead positions the markers are set at
MarkerTimes == {2, 10}
\* the preference list of initExport, by position
OptionsToTry == <<"video/mp4", "video/mp4;codecs=h264,aac",
                  "video/webm;codecs=h264", "video/webm">>
\* recorder.mimeType of a recorder constructed without options: empty until
\* the recording starts, or the container the browser defaults to
DefaultMimes == {"", "video/x-matroska;codecs=avc1,opus"}
\* what MediaRecorder.isTypeSupported accepts, whether the constructor
\* without options succeeds and the mimeType such a recorder reports
ChromeLike == [supported |-> {2, 4}, fallback |-> TRUE,
               defaultMime |-> "video/x-matroska;codecs=avc1,opus"]
NoEncoder == [supported |-> {}, fallback |-> FALSE, defaultMime |-> ""]
HostProfiles == {ChromeLike, NoEncoder}
\* every subset of the preference list, with and without a working fallback
EncoderHosts ==
    {[supported |-> S, fallback |-> f, defaultMime |-> m] :
        S \in SUBSET (1..Len(OptionsToTry)), f \in BOOLEAN, m \in DefaultMimes}
\* a playing decoder advances by 0, 1 or 2 times the elapsed wall-clock time
DecoderRates == {0, 1, 2}
\* a clip without the optional transition field
NoTransition == [type |-> "none", duration |-> 0]
\* a saved project handed to handleLoadProject: one trimmed video clip that
\* spans [5, 45) of the timeline and carries the muted flag of the Clip type
SavedProject ==
    [clips |-> << [id |-> 1, type |-> "video", duration |-> 60, start |-> 10,
                   end |-> 50, offset |-> 5, track |-> 0, fadeIn |-> 0,
                   muted |-> TRUE, fadeOut |-> 0,
                   transition |-> NoTransition] >>,
     duration |-> 50]
SavedClips == SavedProject.clips
\* the transition of the first video clip of the saved timelines below
ComposeTransitions ==
    {NoTransition, [type |-> "fade", duration |-> 10],
     [type |-> "wipe-right", duration |-> 5]}
\* a saved timeline of a text clip, a video clip on track 1 with fades, two
\* overlapping video clips on track 0 and an audio clip with a fade out
ComposeClips(tr) ==
    << [id |-> 1, type |-> "text", duration |-> 500, start |-> 0, end |-> 20,
        offset |-> 0, track |-> 2, fadeIn |-> 10, muted |-> FALSE,
        fadeOut |-> 0, transition |-> NoTransition],
       [id |-> 2, type |-> "video", duration |-> 20, start |-> 0, end |-> 20,
        offset |-> 0, track |-> 1, fadeIn |-> 8, muted |-> FALSE,
        fadeOut |-> 10, transition |-> tr],
       [id |-> 3, type |-> "video", duration |-> 20, start |-> 5, end |-> 20,
        offset |-> 5, track |-> 0, fadeIn |-> 0, muted |-> FALSE,
        fadeOut |-> 0, transition |-> NoTransition],
       [id |-> 4, type |-> "video", duration |-> 20, start |-> 0, end |-> 20,
        offset |-> 10, track |-> 0, fadeIn |-> 10, muted |-> FALSE,
        fadeOut |-> 0, transition |-> NoTransition],
       [id |-> 5, type |-> "audio", duration |-> 30, start |-> 0, end |-> 30,
        offset |-> 0, track |-> 3, fadeIn |-> 0, muted |-> FALSE,
        fadeOut |-> 10, transition |-> NoTransition] >>
\* the clips array of a saved project in the opposite order
Reversed(cs) == [i \in 1..Len(cs) |-> cs[Len(cs) + 1 - i]]
\* the saved timelines handed to handleLoadProject
ComposeProjects ==
    {[clips |-> ComposeClips(tr), duration |-> 40] : tr \in ComposeTransitions}
      \cup {[clips |-> Reversed(ComposeClips(tr)), duration |-> 40] :
                tr \in ComposeTransitions}
\* the times the ruler is clicked at on those timelines
ComposeSeekTimes == {3, 7, 12, 17, 25}
\* saved projects of one clip that carries an entry fade or a transition
TimelineProjects ==
    {[clips |-> << [SavedClips[1] EXCEPT !.fadeIn = f, !.transition = tr] >>,
      duration |-> SavedProject.duration] :
        f \in {8}, tr \in ComposeTransitions \ {NoTransition}}
ExportStartInputs == {-5}    \* numbers typed into the dialog's start input
RulerPositions == {-3, 12}  \* pointer positions on the ruler, over the zoom
TouchDistances == {4, 12}   \* displacement of a finger, in pixels

VARIABLES
    \* App: project state
    clips,            \* project.clips, a sequence of clip records
    selectedClipId,   \* project.selectedClipId (NoId = null)
    currentTime,      \* project.currentTime
    pDuration,        \* project.duration
    nextId,           \* next id crypto.randomUUID() returns
    \* Timeline: interaction state
    dragState,        \* dragState of Timeline
    dragCount,        \* presses that started a clip drag so far
    isDraggingPlayhead,
    touch,            \* longPressTimer, touchStartPos and the pending
                      \* long-press timeouts, with the fingers on the screen
    emitted,          \* the last clip operation a handler emitted
    \* Player: media resources
    videoRefs,        \* keys of videoRefs.current
    audioRefs,        \* keys of audioRefs.current
    gainNodes,        \* keys of gainNodesRef.current
    units,            \* the media element of each key: its currentTime,
                      \* paused, seeking and readyState
    \* App and Player: transport
    isPlaying,        \* project.isPlaying
    isLooping,        \* project.isLooping
    internalTime,     \* internalTimeRef.current, the master clock
    lastTimeAge,      \* performance.now() - lastTimeRef.current (-1 = null)
    sinceUi,          \* performance.now() - lastUiUpdateRef.current
    sinceRender,      \* performance.now() - lastRenderTimeRef.current
    \* App: export request
    inPoint,          \* project.inPoint (-1 = null)
    outPoint,         \* project.outPoint (-1 = null)
    exportSettings,   \* [start, end]
    showExportModal,
    isExporting,
    fps,              \* project.fps
    attempt,          \* number of export requests made so far
    \* Player: export pipeline
    host,             \* the encoder support of the browser
    actxState,        \* audioContextRef.current.state
    isInternalExporting,
    isStopping,       \* isStoppingRef.current
    mediaRecorderRef, \* index into recorders, NoRec = null
    recorders,        \* every MediaRecorder created, in creation order
    recordedChunks,   \* number of chunks in recordedChunksRef.current
    pendingInits,     \* initExport calls suspended at await resume()
    timers,           \* pending setTimeout callbacks of the stop check
    \* observation of each export attempt
    finishCalls,      \* onExportFinish invocations
    artifacts,        \* an onExportFinish invocation carried a url
    stopCalls,        \* recorder.stop() invocations
    cancelledEarly,   \* cancelled from outside before the end time
    frames            \* renderFrameLogic calls while the recorder records

vars == <<clips, selectedClipId, currentTime, pDuration, nextId,
          dragState, dragCount, isDraggingPlayhead, touch, emitted, videoRefs, audioRefs, gainNodes,
          units, isPlaying, isLooping, internalTime, lastTimeAge, sinceUi,
          sinceRender, inPoint, outPoint, exportSettings, showExportModal,
          isExporting, fps, attempt, host, actxState, isInternalExporting,
          isStopping, mediaRecorderRef, recorders, recordedChunks,
          pendingInits, timers, finishCalls, artifacts, stopCalls,
          cancelledEarly, frames>>

dragVars == <<dragState, dragCount, isDraggingPlayhead, touch>>
mediaVars == <<videoRefs, audioRefs, gainNodes>>
requestVars == <<inPoint, outPoint, exportSettings, showExportModal, fps,
                 attempt, host, actxState>>
pipelineVars == <<isExporting, isInternalExporting, isStopping,
                  mediaRecorderRef, recorders, recordedChunks, pendingInits,
                  timers, finishCalls, artifacts, stopCalls, cancelledEarly,
                  frames>>
clockVars == <<lastTimeAge, sinceUi, sinceRender, requestVars, pipelineVars>>

\* ----------------------------------------------------------------- helpers
Max(a, b) == IF a >= b THEN a ELSE b
Min(a, b) == IF a <= b THEN a ELSE b
Abs(a) == IF a >= 0 THEN a ELSE -a

ClipIds(cs) == {cs[i].id : i \in 1..Len(cs)}

HasClip(cs, id) == \E i \in 1..Len(cs) : cs[i].id = id

\* project.clips.find(c => c.id === id): the first clip with that id
FindClip(cs, id) ==
    cs[CHOOSE i \in 1..Len(cs) :
          cs[i].id = id /\ \A j \in 1..(i - 1) : cs[j].id # id]

\* p.clips.map(c => c.id === updated.id ? updated : c)
ReplaceClip(cs, updated) ==
    [i \in 1..Len(cs) |-> IF cs[i].id = updated.id THEN updated ELSE cs[i]]

\* clip.offset + (clip.end - clip.start)
SpanEnd(c) == c.offset + (c.end - c.start)

\* project.tracks.find(t => t.type === type).id with INITIAL_TRACKS
TrackOf(type) == CASE type = "video" -> 0
                   [] type = "audio" -> 1
                   [] OTHER -> 2

\* Timeline refs of the long press: no timeout is pending, no finger is down
NoTimer == 0
NoPointer == -1
MousePointer == 0
TouchTolerance == 10     \* dist > 10, in pixels
NoTouch == [longPressTimer |-> NoTimer, touchStartPos |-> NoTimer,
            pending |-> << >>, nextTimer |-> 1, down |-> {}, moved |-> {},
            fired |-> NoTimer, owner |-> NoPointer]

NoDrag == [isDragging |-> FALSE, clipId |-> NoId, originalOffset |-> 0,
           originalStart |-> 0, originalEnd |-> 0, interactionType |-> "move"]

\* emitted names the operation and the clip it replaced or created; a split
\* also keeps the clip it split and the playhead time it split at
NoEmit == [op |-> "none", id |-> NoId, newId |-> NoId, t |-> 0,
           offset |-> 0, start |-> 0, end |-> 0, blob |-> 0, mime |-> "",
           drawn |-> <<>>, timeUpdate |-> FALSE, gains |-> <<>>,
           alphas |-> <<>>]

Emit(op, c) == [NoEmit EXCEPT !.op = op]

EmitSplit(c, newId, t) ==
    [op |-> "split", id |-> c.id, newId |-> newId, t |-> t,
     offset |-> c.offset, start |-> c.start, end |-> c.end,
     blob |-> 0, mime |-> "", drawn |-> <<>>, timeUpdate |-> FALSE,
     gains |-> <<>>, alphas |-> <<>>]

\* --------------------------------------------- Player: reconcile effect
\* Cleanup of removed clips, then creation of the missing media elements.
ReconcileVideoNoCleanup(cs, refs) ==
    refs \cup {cs[i].id : i \in {j \in 1..Len(cs) : cs[j].type = "video"}}

ReconcileVideo(cs, refs) ==
    {id \in refs : id \in ClipIds(cs)}
      \cup {cs[i].id : i \in {j \in 1..Len(cs) : cs[j].type = "video"}}

ReconcileAudio(cs, refs) ==
    {id \in refs : id \in ClipIds(cs)}
      \cup {cs[i].id : i \in {j \in 1..Len(cs) : cs[j].type = "audio"}}

\* gain nodes are deleted with their element and created with a new element
ReconcileGain(cs, vrefs, arefs, gains) ==
    LET keptV == {id \in vrefs : id \in ClipIds(cs)}
        keptA == {id \in arefs : id \in ClipIds(cs)}
        gone  == (vrefs \ keptV) \cup (arefs \ keptA)
        made  == (ReconcileVideo(cs, vrefs) \ keptV)
                   \cup (ReconcileAudio(cs, arefs) \ keptA)
    IN  (gains \ gone) \cup made

\* document.createElement('video' | 'audio'): nothing loaded, paused at 0
NewUnit == [currentTime |-> 0, paused |-> TRUE, seeking |-> FALSE,
            readyState |-> 0, failed |-> FALSE]

\* the elements kept keep their state, the elements created are new
ReconcileUnits(cs, vrefs, arefs, us) ==
    [id \in ReconcileVideo(cs, vrefs) \cup ReconcileAudio(cs, arefs) |->
        IF id \in DOMAIN us THEN us[id] ELSE NewUnit]

\* The effect on [project.clips], run after the render that commits cs.
Reconcile(cs) ==
    /\ videoRefs' = ReconcileVideo(cs, videoRefs)
    /\ audioRefs' = ReconcileAudio(cs, audioRefs)
    /\ gainNodes' = ReconcileGain(cs, videoRefs, audioRefs, gainNodes)
    /\ units' = ReconcileUnits(cs, videoRefs, audioRefs, units)

\* ------------------------------------------- Player: seek sync effect
\* The effect on [project.currentTime, project.isPlaying]: the paused clock
\* follows the project time.
SeekSync(clock, time, playing) ==
    IF ~playing /\ Abs(clock - time) > SyncEpsilon THEN time ELSE clock

\* ------------------------------------------- Player: renderFrameLogic
\* mediaEl.currentTime = t: the position reads back at once and a seek is in
\* flight once the element has metadata
SetTime(u, t) ==
    [u EXCEPT !.currentTime = t, !.seeking = (u.readyState >= HaveMetadata)]

IsActive(c, t) == t >= c.offset /\ t < SpanEnd(c)

IsUpcoming(c, t) == c.offset > t /\ c.offset < t + LookAhead

\* (currentTime - clip.offset) + clip.start
TargetClipTime(c, t) == (t - c.offset) + c.start

\* a warm-up that parks a unit only when it is more than 0.25 s away
WarmUpUnitLoose(u, c) ==
    LET p == [u EXCEPT !.paused = TRUE]
    IN  IF Abs(p.currentTime - c.start) > LooseTol THEN SetTime(p, c.start)
        ELSE p

\* warm-up of an upcoming clip: paused and parked at its start
WarmUpUnit(u, c) ==
    LET p == [u EXCEPT !.paused = TRUE]
    IN  IF Abs(p.currentTime - c.start) > ParkTol THEN SetTime(p, c.start)
        ELSE p

\* a unit that is neither active nor upcoming is paused and reset if it plays
PauseUnit(u, resetTo) ==
    IF ~u.paused THEN SetTime([u EXCEPT !.paused = TRUE], resetTo) ELSE u

AlignUnitLax(u, c, t, isRunning) ==
    LET target == TargetClipTime(c, t)
        drift == u.currentTime - target
    IN  IF isRunning
        THEN IF u.paused
             THEN LET s0 == IF Abs(drift) > ParkTol THEN SetTime(u, target)
                            ELSE u
                  IN  IF s0.readyState >= HaveCurrentData
                      THEN [s0 EXCEPT !.paused = FALSE] ELSE s0
             ELSE IF Abs(drift) > LooseTol + ParkTol /\ ~u.seeking
                  THEN SetTime(u, target) ELSE u
        ELSE LET p == [u EXCEPT !.paused = TRUE]
             IN  IF Abs(p.currentTime - target) > ScrubTol
                 THEN SetTime(p, target) ELSE p

\* sync of the unit of an active clip with the master clock
AlignUnit(u, c, t, isRunning) ==
    LET target == TargetClipTime(c, t)
        drift == u.currentTime - target
    IN  IF isRunning
        THEN IF u.paused
             THEN LET s0 == IF Abs(drift) > ParkTol THEN SetTime(u, target)
                            ELSE u
                  IN  IF s0.readyState >= HaveCurrentData
                      THEN [s0 EXCEPT !.paused = FALSE] ELSE s0
             ELSE IF Abs(drift) > LooseTol /\ ~u.seeking
                  THEN SetTime(u, target) ELSE u
        ELSE LET p == [u EXCEPT !.paused = TRUE]
             IN  IF Abs(p.currentTime - target) > ScrubTol
                 THEN SetTime(p, target) ELSE p

RECURSIVE InsertByTrack(_, _)
RECURSIVE InsertByTrackFront(_, _)
RECURSIVE SortByTrack(_)

\* an ordering that puts c in front of the clips of its own track
InsertByTrackFront(sorted, c) ==
    IF sorted = <<>> THEN <<c>>
    ELSE IF sorted[Len(sorted)].track < c.track THEN Append(sorted, c)
    ELSE Append(InsertByTrackFront(SubSeq(sorted, 1, Len(sorted) - 1), c),
                sorted[Len(sorted)])

\* Array.prototype.sort((a, b) => a.track - b.track), a stable sort: c goes
\* behind the sorted clips whose track is not above its own
InsertByTrack(sorted, c) ==
    IF sorted = <<>> THEN <<c>>
    ELSE IF sorted[Len(sorted)].track <= c.track THEN Append(sorted, c)
    ELSE Append(InsertByTrack(SubSeq(sorted, 1, Len(sorted) - 1), c),
                sorted[Len(sorted)])

SortByTrack(cs) ==
    IF cs = <<>> THEN <<>>
    ELSE InsertByTrack(SortByTrack(SubSeq(cs, 1, Len(cs) - 1)), cs[Len(cs)])

\* the ids of the clips renderFrameLogic(t) draws, in drawing order: the
\* active video clips whose element has metadata, sorted by track, then the
\* active text clips in array order
DrawList(cs, t, us) ==
    LET ActiveVideo(c) == c.type = "video" /\ IsActive(c, t)
        HasFrame(c) == c.id \in DOMAIN us /\ us[c.id].readyState >= HaveMetadata
        ActiveText(c) == c.type = "text" /\ IsActive(c, t)
        drawn == SelectSeq(SortByTrack(SelectSeq(cs, ActiveVideo)), HasFrame)
                     \o SelectSeq(cs, ActiveText)
    IN  [i \in 1..Len(drawn) |-> drawn[i].id]

\* an alpha whose entry ramp prefers fadeIn to the transition
RenderAlphaFadeFirst(c, t) ==
    LET relativeTime == t - c.offset
        remainingTime == SpanEnd(c) - t
        entryDuration == IF c.fadeIn > 0 THEN c.fadeIn
                         ELSE c.transition.duration
    IN  IF entryDuration > 0 /\ relativeTime < entryDuration
        THEN <<relativeTime, entryDuration>>
        ELSE IF c.fadeOut > 0 /\ remainingTime < c.fadeOut
        THEN <<remainingTime, c.fadeOut>>
        ELSE <<1, 1>>

\* the alpha of an active clip at clock t, as the fraction
\* <<numerator, denominator>>: _renderAlpha
RenderAlpha(c, t) ==
    LET relativeTime == t - c.offset
        remainingTime == SpanEnd(c) - t
        entryDuration == IF c.transition.type # "none"
                         THEN c.transition.duration ELSE c.fadeIn
    IN  IF entryDuration > 0 /\ relativeTime < entryDuration
        THEN <<relativeTime, entryDuration>>
        ELSE IF c.fadeOut > 0 /\ remainingTime < c.fadeOut
        THEN <<remainingTime, c.fadeOut>>
        ELSE <<1, 1>>

\* the clips renderFrameLogic(t) computes an alpha for: the active clips with
\* a media element and the active text clips
AlphaClips(cs, t, us) ==
    {i \in 1..Len(cs) : /\ IsActive(cs[i], t)
                         /\ (cs[i].id \in DOMAIN us \/ cs[i].type = "text")}

\* _renderAlpha of those clips after renderFrameLogic(t), by clip id
RenderAlphas(cs, t, us) ==
    [id \in {cs[i].id : i \in AlphaClips(cs, t, us)} |->
        RenderAlpha(FindClip(cs, id), t)]

\* gainNode.gain.value as renderFrameLogic(t) sets it, by clip id, for the
\* active clips with a media element and a gain node
GainValues(cs, t, us, gains) ==
    [id \in {cs[i].id : i \in {j \in AlphaClips(cs, t, us) :
                                  /\ cs[j].id \in DOMAIN us
                                  /\ cs[j].id \in gains}} |->
        RenderAlpha(FindClip(cs, id), t)]

\* the media elements after renderFrameLogic(t)
RenderFrameLogic(cs, t, isRunning, us) ==
    [id \in DOMAIN us |->
        IF ~HasClip(cs, id) THEN PauseUnit(us[id], 0)
        ELSE LET c == FindClip(cs, id)
             IN  CASE IsActive(c, t) -> AlignUnit(us[id], c, t, isRunning)
                   [] IsUpcoming(c, t) -> WarmUpUnit(us[id], c)
                   [] OTHER -> PauseUnit(us[id], c.start)]

\* ------------------------------------------------------ App and Player state
\* The state the transport and export handlers read and write, as one record:
\* a handler is a function from this record to this record.
World ==
    [currentTime |-> currentTime, isPlaying |-> isPlaying,
     isExporting |-> isExporting, internalTime |-> internalTime,
     lastTimeAge |-> lastTimeAge, sinceUi |-> sinceUi,
     sinceRender |-> sinceRender, units |-> units,
     isInternalExporting |-> isInternalExporting, isStopping |-> isStopping,
     mediaRecorderRef |-> mediaRecorderRef, recorders |-> recorders,
     recordedChunks |-> recordedChunks, pendingInits |-> pendingInits,
     timers |-> timers, finishCalls |-> finishCalls, artifacts |-> artifacts,
     stopCalls |-> stopCalls, cancelledEarly |-> cancelledEarly,
     frames |-> frames]

SetWorld(w) ==
    \E v \in {w} :
        /\ currentTime' = v.currentTime
        /\ isPlaying' = v.isPlaying
        /\ isExporting' = v.isExporting
        /\ internalTime' = v.internalTime
        /\ lastTimeAge' = v.lastTimeAge
        /\ sinceUi' = v.sinceUi
        /\ sinceRender' = v.sinceRender
        /\ units' = v.units
        /\ isInternalExporting' = v.isInternalExporting
        /\ isStopping' = v.isStopping
        /\ mediaRecorderRef' = v.mediaRecorderRef
        /\ recorders' = v.recorders
        /\ recordedChunks' = v.recordedChunks
        /\ pendingInits' = v.pendingInits
        /\ timers' = v.timers
        /\ finishCalls' = v.finishCalls
        /\ artifacts' = v.artifacts
        /\ stopCalls' = v.stopCalls
        /\ cancelledEarly' = v.cancelledEarly
        /\ frames' = v.frames

\* the attempt a call is counted for; calls made before any request are
\* counted for the first
AttemptOf(a) == IF a < 1 THEN 1 ELSE a

\* App.handleExportFinish(url, mimeType), called for attempt a
HandleExportFinish(w, hasUrl, a) ==
    [w EXCEPT !.isExporting = FALSE,
              !.isPlaying = FALSE,
              !.finishCalls[AttemptOf(a)] = Min(@ + 1, 2),
              !.artifacts[AttemptOf(a)] = @ \/ hasUrl]

\* App.handleTimeUpdate(time)
HandleTimeUpdate(w, time) ==
    LET endTime == IF w.isExporting THEN exportSettings.end ELSE pDuration
    IN  IF time >= endTime
        THEN [w EXCEPT !.currentTime = endTime, !.isPlaying = FALSE]
        ELSE [w EXCEPT !.currentTime = time]

\* the seek sync effect of the Player: it runs when project.currentTime or
\* project.isPlaying differ from the previous commit w0
SeekSyncEffect(w0, w) ==
    IF w.currentTime = w0.currentTime /\ w.isPlaying = w0.isPlaying THEN w
    ELSE IF w.isInternalExporting THEN w
    ELSE [w EXCEPT !.internalTime = SeekSync(@, w.currentTime, w.isPlaying)]

\* a stop() whose stop event is never delivered
StopRecorderSilent(w, r) ==
    [w EXCEPT !.recorders[r].state = "inactive",
              !.stopCalls[AttemptOf(w.recorders[r].attempt)] = Min(@ + 1, 2)]

\* recorder.stop() on recorder r: inactive at once, its stop event queued
StopRecorder(w, r) ==
    [w EXCEPT !.recorders[r].state = "inactive",
              !.recorders[r].stopPending = TRUE,
              !.stopCalls[AttemptOf(w.recorders[r].attempt)] = Min(@ + 1, 2)]

RECURSIVE SelectFrom(_)

\* the selection loop of initExport from position i of optionsToTry on: the
\* first type isTypeSupported accepts gets the recorder (the constructor
\* accepts what isTypeSupported accepts); 0 when the list is exhausted
SelectFrom(i) ==
    IF i > Len(OptionsToTry) THEN 0
    ELSE IF i \in host.supported THEN i
    ELSE SelectFrom(i + 1)

\* position in optionsToTry of the type the recorder was made with, 0 for a
\* recorder made by the constructor without options
SelectedOption == SelectFrom(1)

\* an emptiness test that lets every blob through
BlobEmptyNever(chunks) == FALSE

\* recorder.onstop: blob.size === 0
BlobEmpty(chunks) == chunks = 0

\* selectedMimeType of a recorder made at position option
SelectedMimeType(option) ==
    IF option = 0 THEN host.defaultMime ELSE OptionsToTry[option]

\* no entry of optionsToTry is supported and the constructor without options
\* throws
InitFails == SelectedOption = 0 /\ ~host.fallback

\* the body of initExport after the audio context is ready, for the request
\* a with the project time the effect captured
InitBody(w, time, a) ==
    LET w1 == [w EXCEPT !.internalTime = time,
                        !.units = RenderFrameLogic(clips, time,
                                     w.isPlaying \/ w.isInternalExporting,
                                     w.units)]
    IN  IF InitFails
        THEN HandleExportFinish(w1, FALSE, a)
        ELSE [w1 EXCEPT !.recordedChunks = 0,
                        !.recorders = Append(@, [state |-> "recording",
                                                 stopPending |-> FALSE,
                                                 attempt |-> a,
                                                 option |-> SelectedOption]),
                        !.mediaRecorderRef = Len(w.recorders) + 1,
                        !.lastTimeAge = 0,
                        !.isInternalExporting = TRUE,
                        !.frames = 0]

\* the export effect of the Player, run after a commit, a being the number
\* of export requests made
ExportEffect(w, a) ==
    IF w.isExporting /\ w.mediaRecorderRef = NoRec
    THEN LET w1 == [w EXCEPT !.isStopping = FALSE]
         IN  IF actxState = "suspended"
             THEN [w1 EXCEPT !.pendingInits =
                                 Append(@, [time |-> w.currentTime,
                                            attempt |-> a])]
             ELSE InitBody(w1, w.currentTime, a)
    ELSE IF ~w.isExporting /\ w.mediaRecorderRef # NoRec
    THEN LET r == w.mediaRecorderRef
             w1 == IF w.recorders[r].state # "inactive"
                   THEN StopRecorder(w, r) ELSE w
         IN  [w1 EXCEPT !.mediaRecorderRef = NoRec,
                        !.isInternalExporting = FALSE]
    ELSE w

\* the export effect starts initExport and initExport reports a failure
EffectFinishes(w) ==
    /\ w.isExporting
    /\ w.mediaRecorderRef = NoRec
    /\ actxState # "suspended"
    /\ InitFails

\* the effects that follow the commit of a handler's state update from w0 to
\* w; a finish reported from inside the export effect is committed in turn
Commit(w0, w, a) ==
    LET w1 == ExportEffect(SeekSyncEffect(w0, w), a)
    IN  IF EffectFinishes(w)
        THEN ExportEffect(SeekSyncEffect(w, w1), a) ELSE w1

\* ------------------------------------------------------ App: clip handlers
AddClip(type, dur) ==
    /\ nextId <= MaxClipIds
    /\ LET newClip == [id |-> nextId, type |-> type, duration |-> dur,
                       start |-> 0, end |-> dur, offset |-> currentTime,
                       track |-> TrackOf(type), fadeIn |-> 0,
                       muted |-> FALSE, fadeOut |-> 0,
                       transition |-> NoTransition]
           newEndTime == newClip.offset + newClip.duration
       IN  /\ clips' = Append(clips, newClip)
           /\ pDuration' = Max(pDuration, newEndTime + DurationPadding)
           /\ currentTime' = newEndTime
           /\ emitted' = Emit("add", newClip)
           /\ Reconcile(Append(clips, newClip))
    /\ nextId' = nextId + 1
    /\ internalTime' = IF isInternalExporting THEN internalTime
                       ELSE SeekSync(internalTime, currentTime', isPlaying)
    /\ UNCHANGED <<selectedClipId, dragVars, isPlaying, isLooping, clockVars>>

AddTextClip ==
    /\ nextId <= MaxClipIds
    /\ LET newClip == [id |-> nextId, type |-> "text",
                       duration |-> TextClipDuration,
                       start |-> 0, end |-> TextClipDuration,
                       offset |-> currentTime,
                       track |-> TrackOf("text"), fadeIn |-> 0,
                       muted |-> FALSE, fadeOut |-> 0,
                       transition |-> NoTransition]
           newEndTime == newClip.offset + newClip.duration
       IN  /\ clips' = Append(clips, newClip)
           /\ pDuration' = Max(pDuration, newEndTime + DurationPadding)
           /\ currentTime' = newEndTime
           /\ selectedClipId' = newClip.id
           /\ emitted' = Emit("add", newClip)
           /\ Reconcile(Append(clips, newClip))
    /\ nextId' = nextId + 1
    /\ internalTime' = IF isInternalExporting THEN internalTime
                       ELSE SeekSync(internalTime, currentTime', isPlaying)
    /\ UNCHANGED <<dragVars, isPlaying, isLooping, clockVars>>

SelectClip(id) ==
    /\ id = NoId \/ HasClip(clips, id)
    /\ isExporting => Len(pendingInits) < MaxPending
    /\ selectedClipId' = id
    /\ emitted' = NoEmit
    /\ SetWorld(Commit(World, World, attempt))
    /\ UNCHANGED <<clips, pDuration, nextId, dragVars, mediaVars, isLooping,
                   requestVars>>

\* a handleSeek that also takes requests made during an export
SeekUnguarded(t) ==
    /\ emitted' = [NoEmit EXCEPT !.op = "seek", !.t = t]
    /\ SetWorld(Commit(World, [World EXCEPT !.currentTime = t], attempt))
    /\ UNCHANGED <<clips, selectedClipId, pDuration, nextId, dragVars,
                   mediaVars, isLooping, requestVars>>

\* handleSeek(time): returns at once during an export
Seek(t) ==
    /\ emitted' = [NoEmit EXCEPT !.op = "seek", !.t = t]
    /\ IF isExporting
       THEN SetWorld(World)
       ELSE SetWorld(Commit(World, [World EXCEPT !.currentTime = t], attempt))
    /\ UNCHANGED <<clips, selectedClipId, pDuration, nextId, dragVars,
                   mediaVars, isLooping, requestVars>>

SplitRightOffsetStale(clip, t) == clip.offset

\* offset of the right clip of a split
SplitRightOffset(clip, t) == t

\* a check that also accepts the playhead on the edges of the clip's span
SplitInsideLoose(clip, t) ==
    ~(t - clip.offset < 0 \/ t - clip.offset > clip.end - clip.start)

\* the playhead is strictly inside the clip's span
SplitInside(clip, t) ==
    ~(t - clip.offset <= 0 \/ t - clip.offset >= clip.end - clip.start)

\* handleSplit: without a selected clip, or with the playhead outside it, the
\* handler returns before any update
Split ==
    IF /\ selectedClipId # NoId
       /\ HasClip(clips, selectedClipId)
       /\ SplitInside(FindClip(clips, selectedClipId), currentTime)
    THEN
        /\ nextId <= MaxClipIds
        /\ LET clip == FindClip(clips, selectedClipId)
               relativeTime == currentTime - clip.offset
               splitPointSource == clip.start + relativeTime
               leftClip == [clip EXCEPT !.end = splitPointSource]
               rightClip == [clip EXCEPT !.id = nextId,
                                         !.start = splitPointSource,
                                         !.end = clip.end,
                                         !.offset = SplitRightOffset(clip, currentTime),
                                         !.fadeIn = 0]
               newClips == Append(ReplaceClip(clips, leftClip), rightClip)
           IN  /\ clips' = newClips
               /\ emitted' = EmitSplit(clip, nextId, currentTime)
               /\ Reconcile(newClips)
        /\ selectedClipId' = NoId
        /\ nextId' = nextId + 1
        /\ UNCHANGED <<currentTime, pDuration, dragVars, isPlaying, isLooping,
                       internalTime, clockVars>>
    ELSE
        /\ emitted' = [NoEmit EXCEPT !.op = "split-rejected"]
        /\ UNCHANGED <<clips, selectedClipId, currentTime, pDuration, nextId,
                       dragVars, mediaVars, units, isPlaying, isLooping,
                       internalTime, clockVars>>

Delete ==
    /\ selectedClipId # NoId
    /\ LET newClips == SelectSeq(clips, LAMBDA c : c.id # selectedClipId)
       IN  /\ clips' = newClips
           /\ Reconcile(newClips)
    /\ selectedClipId' = NoId
    /\ emitted' = NoEmit
    /\ UNCHANGED <<currentTime, pDuration, nextId, dragVars, isPlaying,
                   isLooping, internalTime, clockVars>>

\* previous clip on the same track: the last, in offset order, of the clips
\* that start before the current one
PrevClips(cs, cur) ==
    {i \in 1..Len(cs) : /\ cs[i].track = cur.track
                        /\ cs[i].id # cur.id
                        /\ cs[i].offset < cur.offset}

\* .sort((a, b) => a.offset - b.offset) is stable: among equal offsets the
\* later array position is popped
PrevClip(cs, cur) ==
    cs[CHOOSE i \in PrevClips(cs, cur) :
          \A j \in PrevClips(cs, cur) :
              \/ cs[j].offset < cs[i].offset
              \/ (cs[j].offset = cs[i].offset /\ j <= i)]

ApplyTransition(kind, transitionDuration) ==
    /\ selectedClipId # NoId
    /\ HasClip(clips, selectedClipId)
    /\ LET currentClip == FindClip(clips, selectedClipId)
       IN  IF PrevClips(clips, currentClip) = {}
           THEN LET updated == IF kind = "dissolve"
                               THEN [currentClip EXCEPT !.fadeIn = transitionDuration]
                               ELSE [currentClip EXCEPT !.fadeIn = 0]
                IN  /\ clips' = ReplaceClip(clips, updated)
                    /\ emitted' = Emit("transition", updated)
                    /\ Reconcile(ReplaceClip(clips, updated))
           ELSE LET prevClip == PrevClip(clips, currentClip)
                    prevClipEnd == SpanEnd(prevClip)
                    desiredOffset == prevClipEnd - transitionDuration
                    updated == IF kind = "dissolve"
                               THEN [currentClip EXCEPT !.offset = desiredOffset,
                                                        !.fadeIn = transitionDuration]
                               ELSE [currentClip EXCEPT !.offset = prevClipEnd,
                                                        !.fadeIn = 0]
                IN  /\ ~(kind = "dissolve" /\ desiredOffset < 0)
                    /\ clips' = ReplaceClip(clips, updated)
                    /\ emitted' = Emit("transition", updated)
                    /\ Reconcile(ReplaceClip(clips, updated))
    /\ UNCHANGED <<selectedClipId, currentTime, pDuration, nextId, dragVars,
                   isPlaying, isLooping, internalTime, clockVars>>

\* ------------------------------------------- Timeline: pointer controller
ClipMouseDown(id) ==
    /\ HasClip(clips, id)
    /\ LET clip == FindClip(clips, id)
       IN  dragState' = [isDragging |-> TRUE, clipId |-> clip.id,
                         originalOffset |-> clip.offset,
                         originalStart |-> clip.start,
                         originalEnd |-> clip.end,
                         interactionType |-> "move"]
    /\ selectedClipId' = id
    /\ dragCount < MaxDrags
    /\ dragCount' = dragCount + 1
    /\ touch' = [touch EXCEPT !.owner = MousePointer]
    /\ emitted' = NoEmit
    /\ UNCHANGED <<clips, currentTime, pDuration, nextId, isDraggingPlayhead,
                   videoRefs, audioRefs, gainNodes, units, isPlaying,
                   isLooping, internalTime, clockVars>>

TrimMouseDown(id, type) ==
    /\ HasClip(clips, id)
    /\ LET clip == FindClip(clips, id)
       IN  dragState' = [isDragging |-> TRUE, clipId |-> clip.id,
                         originalOffset |-> clip.offset,
                         originalStart |-> clip.start,
                         originalEnd |-> clip.end,
                         interactionType |-> type]
    /\ selectedClipId' = id
    /\ dragCount < MaxDrags
    /\ dragCount' = dragCount + 1
    /\ touch' = [touch EXCEPT !.owner = MousePointer]
    /\ emitted' = NoEmit
    /\ UNCHANGED <<clips, currentTime, pDuration, nextId, isDraggingPlayhead,
                   videoRefs, audioRefs, gainNodes, units, isPlaying,
                   isLooping, internalTime, clockVars>>

\* the clip a move drag emits
MoveClip(clip, ds, deltaTime) ==
    [clip EXCEPT !.offset = Max(0, ds.originalOffset + deltaTime)]

\* the clip a trim-start drag emits
TrimStartClip(clip, ds, deltaTime) ==
    LET raw == ds.originalStart + deltaTime
        atZero == IF raw < 0 THEN 0 ELSE raw
        newStart == IF atZero > ds.originalEnd - MinClipLen
                    THEN ds.originalEnd - MinClipLen ELSE atZero
        offsetShift == newStart - ds.originalStart
    IN  [clip EXCEPT !.start = newStart,
                     !.offset = ds.originalOffset + offsetShift]

\* the clip a trim-end drag emits
TrimEndClip(clip, ds, deltaTime) ==
    LET raw == ds.originalEnd + deltaTime
        atDur == IF raw > clip.duration THEN clip.duration ELSE raw
        newEnd == IF atDur < clip.start + MinClipLen
                  THEN clip.start + MinClipLen ELSE atDur
    IN  [clip EXCEPT !.end = newEnd]

\* a marker drag that does not look at the other marker
MarkerInFree(originalOffset, deltaTime, out) ==
    Max(0, originalOffset + deltaTime)

\* the in point a move-in-marker drag emits
MarkerIn(originalOffset, deltaTime, out) ==
    LET newIn == Max(0, originalOffset + deltaTime)
    IN  IF out # NoTime /\ newIn > out THEN out ELSE newIn

\* the out point a move-out-marker drag emits
MarkerOut(originalOffset, deltaTime, in) ==
    LET newOut == Max(0, originalOffset + deltaTime)
    IN  IF in # NoTime /\ newOut < in THEN in ELSE newOut

\* handleMarkerMouseDown / handleMarkerTouchStart: a marker's handle is
\* rendered only while the marker is set
MarkerMouseDown(type) ==
    /\ type = "in" => inPoint # NoTime
    /\ type = "out" => outPoint # NoTime
    /\ dragState' = [isDragging |-> TRUE, clipId |-> NoId,
                     originalOffset |-> IF type = "in" THEN inPoint
                                        ELSE outPoint,
                     originalStart |-> 0, originalEnd |-> 0,
                     interactionType |-> IF type = "in" THEN "move-in-marker"
                                         ELSE "move-out-marker"]
    /\ touch' = [touch EXCEPT !.owner = MousePointer]
    /\ emitted' = NoEmit
    /\ UNCHANGED <<clips, selectedClipId, currentTime, pDuration, nextId,
                   dragCount, isDraggingPlayhead, videoRefs, audioRefs,
                   gainNodes, units, isPlaying, isLooping, internalTime,
                   clockVars>>

\* handleGlobalMove while a clip or a marker is dragged (the listener is
\* attached only during a drag); a marker drag goes through
\* handleMarkerUpdate of App
GlobalMove(deltaTime) ==
    /\ ~isDraggingPlayhead
    /\ dragState.isDragging
    /\ IF dragState.interactionType \in {"move-in-marker", "move-out-marker"}
       THEN LET isIn == dragState.interactionType = "move-in-marker"
                newIn == IF isIn
                         THEN MarkerIn(dragState.originalOffset, deltaTime,
                                       outPoint)
                         ELSE inPoint
                newOut == IF isIn THEN outPoint
                          ELSE MarkerOut(dragState.originalOffset, deltaTime,
                                         inPoint)
            IN  /\ newIn <= MaxOffset
                /\ newOut <= MaxOffset
                /\ inPoint' = newIn
                /\ outPoint' = newOut
                /\ emitted' = [NoEmit EXCEPT !.op = dragState.interactionType,
                                             !.t = IF isIn THEN newIn
                                                   ELSE newOut]
                /\ SetWorld(Commit(World, World, attempt))
                /\ UNCHANGED <<clips, selectedClipId, pDuration, nextId,
                               dragVars, mediaVars, isLooping, exportSettings,
                               showExportModal, fps, attempt, host, actxState>>
       ELSE /\ dragState.clipId # NoId
            /\ HasClip(clips, dragState.clipId)
            /\ LET clip == FindClip(clips, dragState.clipId)
                   updatedClip ==
                       CASE dragState.interactionType = "move" ->
                                MoveClip(clip, dragState, deltaTime)
                         [] dragState.interactionType = "trim-start" ->
                                TrimStartClip(clip, dragState, deltaTime)
                         [] OTHER -> TrimEndClip(clip, dragState, deltaTime)
               IN  /\ updatedClip.offset <= MaxOffset
                   /\ clips' = ReplaceClip(clips, updatedClip)
                   /\ emitted' = Emit(dragState.interactionType, updatedClip)
                   /\ Reconcile(ReplaceClip(clips, updatedClip))
            /\ UNCHANGED <<selectedClipId, currentTime, pDuration, nextId,
                           dragVars, isPlaying, isLooping, internalTime,
                           clockVars>>

\* handleGlobalUp, the listener of mouseup, touchend and touchcancel while a
\* drag is in progress
ReleasedDrag == [dragState EXCEPT !.isDragging = FALSE, !.clipId = NoId]

GlobalUp ==
    /\ dragState.isDragging \/ isDraggingPlayhead
    /\ dragState' = ReleasedDrag
    /\ isDraggingPlayhead' = FALSE
    /\ touch' = [touch EXCEPT !.owner = NoPointer]
    /\ emitted' = NoEmit
    /\ UNCHANGED <<clips, selectedClipId, currentTime, pDuration, nextId,
                   dragCount, videoRefs, audioRefs, gainNodes, units,
                   isPlaying, isLooping, internalTime, clockVars>>

\* getTimelineTime, with the pointer position already divided by the zoom
GetTimelineTime(x) == Max(0, x)

\* handleRulerMouseDown / handlePlayheadTouchStart
RulerMouseDown(x) ==
    /\ emitted' = [NoEmit EXCEPT !.op = "seek", !.t = GetTimelineTime(x)]
    /\ IF isExporting
       THEN SetWorld(World)
       ELSE SetWorld(Commit(World,
                            [World EXCEPT !.currentTime = GetTimelineTime(x)],
                            attempt))
    /\ isDraggingPlayhead' = TRUE
    /\ touch' = [touch EXCEPT !.owner = MousePointer]
    /\ UNCHANGED <<clips, selectedClipId, pDuration, nextId, dragState,
                   dragCount, mediaVars, isLooping, requestVars>>

\* handleGlobalMove while the playhead is dragged
PlayheadMove(x) ==
    /\ isDraggingPlayhead
    /\ Seek(GetTimelineTime(x))

\* ------------------------------------------- Timeline: long press on a clip
\* handleClipTouchStart: finger k comes down on clip id; the timeout keeps
\* the clip of this render
ClipTouchStart(id) ==
    /\ HasClip(clips, id)
    /\ touch.nextTimer <= MaxTouches
    /\ LET k == touch.nextTimer
       IN  touch' = [touch EXCEPT
                       !.touchStartPos = k,
                       !.longPressTimer = k,
                       !.pending = [j \in DOMAIN touch.pending \cup {k} |->
                                      IF j = k THEN FindClip(clips, id)
                                      ELSE touch.pending[j]],
                       !.nextTimer = k + 1,
                       !.down = @ \cup {k}]
    /\ emitted' = NoEmit
    /\ UNCHANGED <<clips, selectedClipId, currentTime, pDuration, nextId,
                   dragState, dragCount, isDraggingPlayhead, videoRefs,
                   audioRefs, gainNodes, units, isPlaying, isLooping,
                   internalTime, clockVars>>

\* clearTimeout(longPressTimer.current); longPressTimer.current = null
ClearLongPress(tc) ==
    IF tc.longPressTimer # NoTimer
    THEN [tc EXCEPT !.longPressTimer = NoTimer,
                    !.pending = [j \in DOMAIN tc.pending \ {tc.longPressTimer}
                                   |-> tc.pending[j]]]
    ELSE tc

\* handleClipTouchMove while no drag is in progress, for the only finger on
\* the screen when touchStartPos holds its start: dist is its displacement
ClipTouchMove(k, dist) ==
    /\ ~dragState.isDragging
    /\ touch.down = {k}
    /\ touch.touchStartPos = k
    /\ touch' = [(IF dist > TouchTolerance THEN ClearLongPress(touch)
                  ELSE touch)
                 EXCEPT !.moved = IF dist > TouchTolerance THEN @ \cup {k}
                                  ELSE @]
    /\ emitted' = NoEmit
    /\ UNCHANGED <<clips, selectedClipId, currentTime, pDuration, nextId,
                   dragState, dragCount, isDraggingPlayhead, videoRefs,
                   audioRefs, gainNodes, units, isPlaying, isLooping,
                   internalTime, clockVars>>

\* touchend of finger k: handleClipTouchEnd on the clip, and handleGlobalUp
\* on the window while a drag is in progress
ClipTouchEnd(k) ==
    /\ k \in touch.down
    /\ LET up == dragState.isDragging \/ isDraggingPlayhead
       IN  /\ touch' = [ClearLongPress(touch) EXCEPT
                          !.down = @ \ {k},
                          !.owner = IF up THEN NoPointer ELSE @]
           /\ dragState' = IF up THEN ReleasedDrag ELSE dragState
    /\ isDraggingPlayhead' = FALSE
    /\ emitted' = NoEmit
    /\ UNCHANGED <<clips, selectedClipId, currentTime, pDuration, nextId,
                   dragCount, videoRefs, audioRefs, gainNodes, units,
                   isPlaying, isLooping, internalTime, clockVars>>

\* touchcancel of finger k: the clip has no handler for it, the window runs
\* handleGlobalUp while a drag is in progress
ClipTouchCancel(k) ==
    /\ k \in touch.down
    /\ LET up == dragState.isDragging \/ isDraggingPlayhead
       IN  /\ touch' = [touch EXCEPT !.down = @ \ {k},
                                     !.owner = IF up THEN NoPointer ELSE @]
           /\ dragState' = IF up THEN ReleasedDrag ELSE dragState
    /\ isDraggingPlayhead' = FALSE
    /\ emitted' = NoEmit
    /\ UNCHANGED <<clips, selectedClipId, currentTime, pDuration, nextId,
                   dragCount, videoRefs, audioRefs, gainNodes, units,
                   isPlaying, isLooping, internalTime, clockVars>>

\* the timeout of handleClipTouchStart runs 300 ms after finger k came down:
\* onClipSelect and setDragState with the clip it kept
LongPressFire(k) ==
    /\ k \in DOMAIN touch.pending
    /\ LET clip == touch.pending[k]
       IN  /\ dragState' = [isDragging |-> TRUE, clipId |-> clip.id,
                            originalOffset |-> clip.offset,
                            originalStart |-> clip.start,
                            originalEnd |-> clip.end,
                            interactionType |-> "move"]
           /\ selectedClipId' = clip.id
           /\ emitted' = [NoEmit EXCEPT !.op = "long-press", !.id = clip.id]
    /\ touch' = [touch EXCEPT
                   !.pending = [j \in DOMAIN touch.pending \ {k} |->
                                  touch.pending[j]],
                   !.fired = k,
                   !.owner = k]
    /\ SetWorld(Commit(World, World, attempt))
    /\ UNCHANGED <<clips, pDuration, nextId, dragCount, isDraggingPlayhead,
                   mediaVars, isLooping, requestVars>>

\* ------------------------------------------------------ App: transport
\* a handleTogglePlay that also takes requests made during an export
TogglePlayUnguarded ==
    /\ emitted' = [NoEmit EXCEPT !.op = "toggle-play"]
    /\ SetWorld(Commit(World, [World EXCEPT !.isPlaying = ~isPlaying],
                       attempt))
    /\ actxState' = IF ~isPlaying THEN "running" ELSE actxState
    /\ UNCHANGED <<clips, selectedClipId, pDuration, nextId, dragVars,
                   mediaVars, isLooping, inPoint, outPoint, exportSettings,
                   showExportModal, fps, attempt, host>>

\* handleTogglePlay: returns at once during an export
TogglePlay ==
    /\ emitted' = [NoEmit EXCEPT !.op = "toggle-play"]
    /\ IF isExporting
       THEN SetWorld(World) /\ actxState' = actxState
       ELSE /\ SetWorld(Commit(World, [World EXCEPT !.isPlaying = ~isPlaying],
                               attempt))
            \* the Player resumes a suspended audio context when playback
            \* starts
            /\ actxState' = IF ~isPlaying THEN "running" ELSE actxState
    /\ UNCHANGED <<clips, selectedClipId, pDuration, nextId, dragVars,
                   mediaVars, isLooping, inPoint, outPoint, exportSettings,
                   showExportModal, fps, attempt, host>>

\* handleToggleLoop
ToggleLoop ==
    /\ isLooping' = ~isLooping
    /\ emitted' = NoEmit
    /\ SetWorld(Commit(World, World, attempt))
    /\ UNCHANGED <<clips, selectedClipId, pDuration, nextId, dragVars,
                   mediaVars, requestVars>>

\* handleLoadProject with the saved project
LoadProjectFrom(loaded) ==
    /\ ~isExporting
    /\ clips' = loaded.clips
    /\ pDuration' = loaded.duration
    /\ selectedClipId' = NoId
    /\ isLooping' = FALSE
    /\ inPoint' = NoTime
    /\ outPoint' = NoTime
    /\ nextId' = Max(nextId, Len(loaded.clips) + 1)
    /\ videoRefs' = ReconcileVideo(loaded.clips, videoRefs)
    /\ audioRefs' = ReconcileAudio(loaded.clips, audioRefs)
    /\ gainNodes' = ReconcileGain(loaded.clips, videoRefs, audioRefs, gainNodes)
    /\ emitted' = NoEmit
    /\ SetWorld(Commit(World,
                       [World EXCEPT !.currentTime = 0,
                                     !.isPlaying = FALSE,
                                     !.units = ReconcileUnits(loaded.clips,
                                                  videoRefs, audioRefs, @)],
                       attempt))
    /\ UNCHANGED <<dragVars, exportSettings, showExportModal, fps, attempt,
                   host, actxState>>

\* handleLoadProject with the saved project
LoadProject == LoadProjectFrom(SavedProject)

\* ------------------------------------------------------ media element events
\* loadedmetadata of the element of clip id: the handler parks it at the
\* clip's start
UnitLoaded(id) ==
    /\ id \in DOMAIN units
    /\ units[id].readyState = 0
    /\ ~units[id].failed
    /\ HasClip(clips, id)
    /\ units' = [units EXCEPT ![id] =
                    SetTime([@ EXCEPT !.readyState = HaveMetadata],
                            FindClip(clips, id).start)]
    /\ emitted' = NoEmit
    /\ UNCHANGED <<clips, selectedClipId, currentTime, pDuration, nextId,
                   dragVars, mediaVars, isPlaying, isLooping, internalTime,
                   clockVars>>

\* video.onerror / audio.onerror: the source of clip id cannot be opened; the
\* handler logs and toggles isMediaLoaded, the element stays without data
UnitError(id) ==
    /\ id \in DOMAIN units
    /\ units[id].readyState = 0
    /\ ~units[id].failed
    /\ units' = [units EXCEPT ![id].failed = TRUE]
    /\ emitted' = [NoEmit EXCEPT !.op = "unit-error", !.id = id]
    /\ UNCHANGED <<clips, selectedClipId, currentTime, pDuration, nextId,
                   dragVars, mediaVars, isPlaying, isLooping, internalTime,
                   clockVars>>

\* the element of clip id has decoded the data at its position
UnitCanPlay(id) ==
    /\ id \in DOMAIN units
    /\ units[id].readyState = HaveMetadata
    /\ units' = [units EXCEPT ![id].readyState = HaveCurrentData]
    /\ emitted' = NoEmit
    /\ UNCHANGED <<clips, selectedClipId, currentTime, pDuration, nextId,
                   dragVars, mediaVars, isPlaying, isLooping, internalTime,
                   clockVars>>

\* the seek in flight on the element of clip id completes
UnitSeeked(id) ==
    /\ id \in DOMAIN units
    /\ units[id].seeking
    /\ units' = [units EXCEPT ![id].seeking = FALSE]
    /\ emitted' = NoEmit
    /\ UNCHANGED <<clips, selectedClipId, currentTime, pDuration, nextId,
                   dragVars, mediaVars, isPlaying, isLooping, internalTime,
                   clockVars>>

\* ------------------------------------------------------ wall clock
\* 1 / fps seconds and 1000 / fps milliseconds
FrameStep == 100 \div fps
FpsInterval == 100 \div fps

\* performance.now() - lastRenderTimeRef.current, kept up to what the export
\* throttle reads: whether it exceeds fpsInterval and its remainder
NormAge(age) ==
    IF age > FpsInterval
    THEN FpsInterval + (IF age % FpsInterval = 0 THEN FpsInterval
                        ELSE age % FpsInterval)
    ELSE age

\* a playing element that is not seeking advances at rate k, up to the end
\* of its source
AdvanceUnit(u, id, d, k) ==
    IF ~u.paused /\ ~u.seeking /\ u.readyState >= HaveCurrentData
       /\ HasClip(clips, id)
    THEN [u EXCEPT !.currentTime =
                      Min(@ + k * d, FindClip(clips, id).duration)]
    ELSE u

TimePasses(d) ==
    /\ \E k \in DecoderRates :
          units' = [id \in DOMAIN units |-> AdvanceUnit(units[id], id, d, k)]
    /\ lastTimeAge' = IF lastTimeAge = NoTime THEN NoTime
                      ELSE Min(lastTimeAge + d, DtCap)
    /\ sinceUi' = Min(sinceUi + d, UiThrottle + 1)
    /\ sinceRender' = NormAge(sinceRender + d)
    /\ timers' = {[tm EXCEPT !.remaining = Max(0, @ - d)] : tm \in timers}
    /\ emitted' = NoEmit
    /\ UNCHANGED <<clips, selectedClipId, currentTime, pDuration, nextId,
                   dragVars, mediaVars, isPlaying, isLooping, internalTime,
                   requestVars, isExporting, isInternalExporting, isStopping,
                   mediaRecorderRef, recorders, recordedChunks, pendingInits,
                   finishCalls, artifacts, stopCalls, cancelledEarly, frames>>

\* ------------------------------------------------------ Player: renderLoop
\* project.clips.reduce((max, c) => Math.max(max, c.offset + (c.end - c.start)), 0)
RECURSIVE MaxContentTime(_)
MaxContentTime(cs) ==
    IF cs = <<>> THEN 0
    ELSE Max(SpanEnd(Head(cs)), MaxContentTime(Tail(cs)))

ExportDtWallClock(w) == Min(w.sinceRender, DtCap)

\* the clock advance of a tick taken while the export is active
ExportDt(w) == FrameStep

\* the clock advance of a tick of normal playback
PlaybackDt(w) ==
    IF w.lastTimeAge = NoTime THEN 0 ELSE Min(w.lastTimeAge, DtCap)

\* a loop that advances the clock in every mode
AdvancingAlways(w) == TRUE

\* the clock advances while the project plays or the export is active
Advancing(w) == w.isPlaying \/ w.isInternalExporting

\* One animation frame callback.
\* a loop rule that also wraps the clock of an export
LoopWrapExporting(looping, exporting, content, t) ==
    IF looping /\ content > 0 /\ t >= content THEN 0 ELSE t

\* renderLoop's loop logic: with looping on and no export running, a clock that
\* has reached the end of the content (of a timeline that has content) goes
\* back to 0
LoopWrap(looping, exporting, content, t) ==
    IF looping /\ ~exporting /\ content > 0 /\ t >= content THEN 0 ELSE t

RenderLoop ==
    \E w \in {World} :
    LET isExportingActive == w.isInternalExporting
        shouldRender == ~isExportingActive \/ w.sinceRender > FpsInterval
        dt == IF isExportingActive THEN ExportDt(w) ELSE PlaybackDt(w)
        advancing == Advancing(w)
        isRunning == w.isPlaying \/ isExportingActive
        effectiveEndTime == IF isExporting THEN exportSettings.end
                            ELSE pDuration
    IN
    \E a1 \in {IF isExportingActive
                THEN [w EXCEPT !.sinceRender = @ % FpsInterval]
                ELSE [w EXCEPT !.lastTimeAge = 0]} :
    \E t1 \in {a1.internalTime + dt * PlaybackSpeed} :
    LET t2 == LoopWrap(isLooping, isExportingActive,
                       MaxContentTime(clips), t1)
        callUi == advancing /\ a1.sinceUi > UiThrottle
    IN
    \E a2 \in {IF advancing
                THEN [a1 EXCEPT !.internalTime = t2,
                                !.sinceUi = IF callUi THEN 0 ELSE @]
                ELSE [a1 EXCEPT !.lastTimeAge = NoTime]} :
    LET arm == /\ isExportingActive
               /\ a2.internalTime >= effectiveEndTime
               /\ ~a2.isStopping
    IN
    \E a3 \in {IF arm
                THEN [a2 EXCEPT !.isStopping = TRUE,
                                !.timers = @ \cup {[remaining |-> GraceDelay,
                                                    attempt |-> attempt]}]
                ELSE a2} :
    LET recording == /\ a3.mediaRecorderRef # NoRec
                     /\ a3.recorders[a3.mediaRecorderRef].state = "recording"
    IN
    \E a4 \in {[a3 EXCEPT !.units = RenderFrameLogic(clips, a3.internalTime,
                                                      isRunning, @),
                           !.frames = IF isExportingActive /\ recording
                                      THEN @ + 1 ELSE @]} :
    \E a5 \in {IF callUi
                THEN Commit(a4, HandleTimeUpdate(a4, a4.internalTime), attempt)
                ELSE a4} :
        /\ advancing => t1 <= (IF isExportingActive THEN MaxExportClock
                                ELSE MaxClock)
        /\ IF shouldRender
           THEN /\ SetWorld(a5)
                /\ emitted' = [NoEmit EXCEPT
                                  !.op = IF isRunning THEN "render-run"
                                         ELSE "render-scrub",
                                  !.t = a4.internalTime,
                                  !.drawn = DrawList(clips, a4.internalTime,
                                                     a4.units),
                                  !.timeUpdate = callUi,
                                  !.gains = GainValues(clips, a4.internalTime,
                                                a4.units, gainNodes),
                                  !.alphas = RenderAlphas(clips,
                                                 a4.internalTime, a4.units)]
           ELSE /\ SetWorld(w)
                /\ emitted' = NoEmit
        /\ UNCHANGED <<clips, selectedClipId, pDuration, nextId, dragVars,
                       mediaVars, isLooping, requestVars>>

\* ------------------------------------------------------ App: export request
SetInPoint ==
    /\ inPoint' = currentTime
    /\ outPoint' = IF outPoint # NoTime /\ currentTime >= outPoint
                   THEN NoTime ELSE outPoint
    /\ emitted' = NoEmit
    /\ SetWorld(Commit(World, World, attempt))
    /\ UNCHANGED <<clips, selectedClipId, pDuration, nextId, dragVars,
                   mediaVars, isLooping, exportSettings, showExportModal,
                   fps, attempt, host, actxState>>

SetOutPoint ==
    /\ outPoint' = currentTime
    /\ inPoint' = IF inPoint # NoTime /\ currentTime <= inPoint
                  THEN NoTime ELSE inPoint
    /\ emitted' = NoEmit
    /\ SetWorld(Commit(World, World, attempt))
    /\ UNCHANGED <<clips, selectedClipId, pDuration, nextId, dragVars,
                   mediaVars, isLooping, exportSettings, showExportModal,
                   fps, attempt, host, actxState>>

\* handleClearMarkers
ClearMarkers ==
    /\ inPoint' = NoTime
    /\ outPoint' = NoTime
    /\ emitted' = NoEmit
    /\ SetWorld(Commit(World, World, attempt))
    /\ UNCHANGED <<clips, selectedClipId, pDuration, nextId, dragVars,
                   mediaVars, isLooping, exportSettings, showExportModal,
                   fps, attempt, host, actxState>>

\* handleExportClick
ExportClick ==
    LET maxContentTime == MaxContentTime(clips)
        start == IF inPoint # NoTime THEN inPoint ELSE 0
        end == IF outPoint # NoTime /\ outPoint > start THEN outPoint
               ELSE maxContentTime
    IN  /\ ~isExporting
        /\ ~showExportModal
        /\ attempt < MaxAttempts
        /\ ~(maxContentTime = 0 /\ (inPoint = NoTime \/ outPoint = NoTime))
        /\ exportSettings' = [start |-> start, end |-> end]
        /\ showExportModal' = TRUE
        /\ emitted' = NoEmit
        /\ SetWorld(Commit(World, World, attempt))
        /\ UNCHANGED <<clips, selectedClipId, pDuration, nextId, dragVars,
                       mediaVars, isLooping, inPoint, outPoint, fps, attempt,
                       host, actxState>>

\* onChange of the dialog's "Start Time" number input: the typed number is
\* stored as it is (the min attribute does not restrict what is typed)
SetExportStart(v) ==
    /\ showExportModal
    /\ exportSettings' = [exportSettings EXCEPT !.start = v]
    /\ emitted' = NoEmit
    /\ SetWorld(Commit(World, World, attempt))
    /\ UNCHANGED <<clips, selectedClipId, pDuration, nextId, dragVars,
                   mediaVars, isLooping, inPoint, outPoint, showExportModal,
                   fps, attempt, host, actxState>>

\* startExport, the confirm button of the export dialog
StartExport ==
    /\ showExportModal
    /\ showExportModal' = FALSE
    /\ attempt' = attempt + 1
    /\ emitted' = [NoEmit EXCEPT !.op = "start-export"]
    /\ SetWorld(Commit(World,
                       [World EXCEPT !.currentTime = exportSettings.start,
                                     !.isPlaying = FALSE,
                                     !.isExporting = TRUE],
                       attempt + 1))
    /\ UNCHANGED <<clips, selectedClipId, pDuration, nextId, dragVars,
                   mediaVars, isLooping, inPoint, outPoint, exportSettings,
                   fps, host, actxState>>

\* the host clears isExporting while the export is in progress
HostCancel ==
    /\ isExporting
    /\ emitted' = [NoEmit EXCEPT !.op = "cancel"]
    /\ SetWorld(Commit(World,
                       [World EXCEPT
                           !.isExporting = FALSE,
                           !.cancelledEarly[AttemptOf(attempt)] =
                               @ \/ (/\ mediaRecorderRef # NoRec
                                     /\ ~isStopping
                                     /\ internalTime < exportSettings.end)],
                       attempt))
    /\ UNCHANGED <<clips, selectedClipId, pDuration, nextId, dragVars,
                   mediaVars, isLooping, requestVars>>

\* ------------------------------------------------------ Player: export events
\* the first user gesture resumes the audio context
UnlockAudio ==
    /\ actxState = "suspended"
    /\ actxState' = "running"
    /\ emitted' = NoEmit
    /\ UNCHANGED <<clips, selectedClipId, currentTime, pDuration, nextId,
                   dragVars, mediaVars, units, isPlaying, isLooping,
                   internalTime, lastTimeAge, sinceUi, sinceRender, inPoint,
                   outPoint, exportSettings, showExportModal, fps, attempt,
                   host, pipelineVars>>

\* await audioContext.resume() settles for the oldest suspended initExport;
\* the rest of initExport runs whether it resolved or was rejected
InitContinue(resolved) ==
    /\ pendingInits # <<>>
    /\ LET h == Head(pendingInits)
           w == [World EXCEPT !.pendingInits = Tail(@)]
       IN  IF InitFails
           THEN SetWorld(Commit(w, InitBody(w, h.time, h.attempt), attempt))
           ELSE SetWorld(InitBody(w, h.time, h.attempt))
    /\ actxState' = IF resolved THEN "running" ELSE actxState
    /\ emitted' = [NoEmit EXCEPT !.op = "init"]
    /\ UNCHANGED <<clips, selectedClipId, pDuration, nextId, dragVars,
                   mediaVars, isLooping, inPoint, outPoint, exportSettings,
                   showExportModal, fps, attempt, host>>

\* the callback of setTimeout(..., 500) of the stop check
TimerFire(tm) ==
    /\ tm \in timers
    /\ tm.remaining = 0
    /\ LET w == [World EXCEPT !.timers = @ \ {tm}]
           r == w.mediaRecorderRef
       IN  IF r # NoRec /\ w.recorders[r].state # "inactive"
           THEN /\ SetWorld(StopRecorder(w, r))
                /\ emitted' = [NoEmit EXCEPT !.op = "timer-stop",
                                             !.id = tm.attempt,
                                             !.newId = w.recorders[r].attempt]
           ELSE /\ SetWorld(Commit(w,
                       HandleExportFinish(
                           [w EXCEPT !.isInternalExporting = FALSE],
                           FALSE, tm.attempt),
                       attempt))
                /\ emitted' = [NoEmit EXCEPT !.op = "timer-finish",
                                             !.id = tm.attempt]
    /\ UNCHANGED <<clips, selectedClipId, pDuration, nextId, dragVars,
                   mediaVars, isLooping, requestVars>>

\* the dataavailable and stop events of recorder r after stop(): the final
\* chunk holds size bytes
RecorderStopEvent(r, size) ==
    /\ r \in 1..Len(recorders)
    /\ recorders[r].stopPending
    /\ LET chunks == IF size > 0 THEN recordedChunks + 1 ELSE recordedChunks
           w == [World EXCEPT !.recorders[r].stopPending = FALSE,
                              !.isInternalExporting = FALSE]
           w1 == HandleExportFinish(w, ~BlobEmpty(chunks),
                                    recorders[r].attempt)
           w2 == [w1 EXCEPT !.recordedChunks = 0,
                            !.mediaRecorderRef = NoRec]
       IN  /\ SetWorld(Commit(w, w2, attempt))
           /\ emitted' = [NoEmit EXCEPT
                             !.op = "recorder-stopped",
                             !.id = recorders[r].attempt,
                             !.blob = chunks,
                             !.mime = SelectedMimeType(recorders[r].option)]
    /\ UNCHANGED <<clips, selectedClipId, pDuration, nextId, dragVars,
                   mediaVars, isLooping, requestVars>>

\* ------------------------------------------------------ initial state
\* App: useState of the export request; the Player's audio context starts
\* suspended until a user gesture
InitRequest ==
    /\ inPoint = NoTime
    /\ outPoint = NoTime
    /\ exportSettings = [start |-> 0, end |-> 0]
    /\ showExportModal = FALSE
    /\ attempt = 0
    /\ actxState = "suspended"

\* Player: useRef initial values of the export pipeline
InitPipeline ==
    /\ isExporting = FALSE
    /\ isInternalExporting = FALSE
    /\ isStopping = FALSE
    /\ mediaRecorderRef = NoRec
    /\ recorders = <<>>
    /\ recordedChunks = 0
    /\ pendingInits = <<>>
    /\ timers = {}
    /\ finishCalls = [a \in 1..MaxAttempts |-> 0]
    /\ artifacts = [a \in 1..MaxAttempts |-> FALSE]
    /\ stopCalls = [a \in 1..MaxAttempts |-> 0]
    /\ cancelledEarly = [a \in 1..MaxAttempts |-> FALSE]
    /\ frames = 0

\* App: useState of the project, and the Player's refs
InitProject ==
    /\ clips = <<>>
    /\ selectedClipId = NoId
    /\ currentTime = 0
    /\ pDuration = InitialDuration
    /\ nextId = 1
    /\ dragState = NoDrag
    /\ dragCount = 0
    /\ isDraggingPlayhead = FALSE
    /\ touch = NoTouch
    /\ emitted = NoEmit
    /\ videoRefs = {}
    /\ audioRefs = {}
    /\ gainNodes = {}
    /\ units = [id \in {} |-> NewUnit]
    /\ isPlaying = FALSE
    /\ isLooping = FALSE
    /\ internalTime = 0
    /\ lastTimeAge = NoTime
    /\ sinceUi = 0
    /\ sinceRender = 2 * FpsInterval
    /\ InitRequest
    /\ InitPipeline

\* ------------------------------------------------------ SpecEdit
\* No export is requested in SpecEdit, so the export effect that follows each
\* commit finds isExporting false and no recorder and does nothing.
InitEdit ==
    /\ fps = DefaultFps
    /\ host = ChromeLike
    /\ InitProject

\* One pointer drives the editor: between the press that starts a drag and
\* its release only pointer moves arrive, so the click handlers run while no
\* drag is in progress.
PointerFree == ~dragState.isDragging /\ ~isDraggingPlayhead

NextEdit ==
    \/ PointerFree /\ \E type \in LibraryTypes, dur \in LibraryDurations :
                         AddClip(type, dur)
    \/ PointerFree /\ AddTextClip
    \/ PointerFree /\ \E id \in 0..MaxClipIds : SelectClip(id)
    \/ PointerFree /\ \E t \in SeekTimes : Seek(t)
    \/ PointerFree /\ Split
    \/ PointerFree /\ Delete
    \/ PointerFree /\ \E kind \in TransitionKinds, d \in TransitionDurations :
                         ApplyTransition(kind, d)
    \/ PointerFree /\ \E id \in 1..MaxClipIds : ClipMouseDown(id)
    \/ PointerFree /\ \E id \in 1..MaxClipIds,
                          type \in {"trim-start", "trim-end"} :
                         TrimMouseDown(id, type)
    \/ \E d \in DragDeltas : GlobalMove(d)
    \/ GlobalUp

SpecEdit == InitEdit /\ [][NextEdit]_vars

\* ------------------------------------------------------ SpecSync
\* Playback and scrubbing of the saved project.
SyncSeekTimes == {35}

InitSync ==
    /\ fps = DefaultFps
    /\ host = ChromeLike
    /\ InitProject

NextSync ==
    \/ LoadProject
    \/ TogglePlay
    \/ \E t \in SyncSeekTimes : Seek(t)
    \/ \E d \in Elapse : TimePasses(d)
    \/ RenderLoop
    \/ \E id \in 1..Len(SavedClips) : UnitLoaded(id)
    \/ \E id \in 1..Len(SavedClips) : UnitError(id)
    \/ \E id \in 1..Len(SavedClips) : UnitCanPlay(id)
    \/ \E id \in 1..Len(SavedClips) : UnitSeeked(id)

SpecSync == InitSync /\ [][NextSync]_vars

\* ------------------------------------------------------ SpecExport
\* Export requests over marker ranges, with the events of the pipeline.
InitExport ==
    /\ fps \in FrameRates
    /\ host \in HostProfiles
    /\ InitProject

\* The wall clock is read by the ticks of an export, by the grace timer and
\* through the ages the ticks keep; SpecExport lets time pass while one of
\* them is live.
TimeObserved == isExporting \/ isInternalExporting \/ timers # {}

\* the playhead and the markers are set up while a request can still use them
CanRequest == attempt < MaxAttempts

NextExport ==
    \/ CanRequest /\ \E t \in MarkerTimes : Seek(t)
    \/ CanRequest /\ SetInPoint
    \/ CanRequest /\ SetOutPoint
    \/ ExportClick
    \/ StartExport
    \/ HostCancel
    \/ isExporting /\ SelectClip(NoId)
    \/ UnlockAudio
    \/ \E resolved \in BOOLEAN : InitContinue(resolved)
    \/ TimeObserved /\ \E d \in ExportElapse : TimePasses(d)
    \/ RenderLoop
    \/ \E tm \in timers : TimerFire(tm)
    \/ \E r \in 1..Len(recorders), size \in {0, 1} : RecorderStopEvent(r, size)

SpecExport == InitExport /\ [][NextExport]_vars

\* ------------------------------------------------------ SpecHosted
\* Export as App hosts it: isExporting is cleared by handleExportFinish
\* only. The browser keeps calling the animation frame callback, time keeps
\* passing, a due timer fires, a stopped recorder delivers its stop event and
\* a pending resume() settles.
NextHosted ==
    \/ CanRequest /\ \E t \in MarkerTimes : Seek(t)
    \/ CanRequest /\ SetInPoint
    \/ CanRequest /\ SetOutPoint
    \/ ExportClick
    \/ StartExport
    \/ isExporting /\ SelectClip(NoId)
    \/ UnlockAudio
    \/ \E resolved \in BOOLEAN : InitContinue(resolved)
    \/ TimeObserved /\ \E d \in ExportElapse : TimePasses(d)
    \/ RenderLoop
    \/ \E tm \in timers : TimerFire(tm)
    \/ \E r \in 1..Len(recorders), size \in {0, 1} : RecorderStopEvent(r, size)

SpecHosted ==
    /\ InitExport
    /\ [][NextHosted]_vars
    /\ WF_vars(RenderLoop)
    /\ WF_vars(TimeObserved /\ \E d \in ExportElapse : TimePasses(d))
    /\ WF_vars(\E tm \in timers : TimerFire(tm))
    /\ WF_vars(\E r \in 1..Len(recorders), size \in {0, 1} :
                  RecorderStopEvent(r, size))
    /\ WF_vars(\E resolved \in BOOLEAN : InitContinue(resolved))

\* ------------------------------------------------------ SpecEncoder
\* One export of a one-clip timeline on every kind of host.
InitEncoder ==
    /\ fps = DefaultFps
    /\ host \in EncoderHosts
    /\ InitProject

NextEncoder ==
    \/ clips = <<>> /\ \E d \in LibraryDurations : AddClip("video", d)
    \/ ExportClick
    \/ StartExport
    \/ UnlockAudio
    \/ \E resolved \in BOOLEAN : InitContinue(resolved)
    \/ TimeObserved /\ \E d \in ExportElapse : TimePasses(d)
    \/ RenderLoop
    \/ \E tm \in timers : TimerFire(tm)
    \/ \E r \in 1..Len(recorders), size \in {0, 1} : RecorderStopEvent(r, size)

SpecEncoder == InitEncoder /\ [][NextEncoder]_vars

\* ------------------------------------------------------ SpecCompose
\* Scrubbing over a loaded timeline with several clips: what each tick draws
\* and the gains it sets.
InitCompose ==
    /\ fps = DefaultFps
    /\ host = ChromeLike
    /\ InitProject

NextCompose ==
    \/ clips = <<>> /\ \E loaded \in ComposeProjects : LoadProjectFrom(loaded)
    \/ \E t \in ComposeSeekTimes : Seek(t)
    \/ RenderLoop
    \/ \E id \in DOMAIN units : UnitLoaded(id)

SpecCompose == InitCompose /\ [][NextCompose]_vars

\* ------------------------------------------------------ SpecTimeline
\* The Timeline's controller on a loaded project of one clip: mouse presses
\* on the clip, its trim handles and the ruler, fingers on the clip, and the
\* window's move and release listeners.
NextTimeline ==
    \/ clips = <<>> /\ \E loaded \in TimelineProjects : LoadProjectFrom(loaded)
    \/ PointerFree /\ \E id \in 1..MaxClipIds : ClipMouseDown(id)
    \/ PointerFree /\ \E id \in 1..MaxClipIds,
                          type \in {"trim-start", "trim-end"} :
                         TrimMouseDown(id, type)
    \/ PointerFree /\ \E x \in RulerPositions : RulerMouseDown(x)
    \/ \E x \in RulerPositions : PlayheadMove(x)
    \/ \E d \in DragDeltas : GlobalMove(d)
    \/ GlobalUp
    \/ \E id \in 1..MaxClipIds : ClipTouchStart(id)
    \/ \E k \in 1..MaxTouches, dist \in TouchDistances : ClipTouchMove(k, dist)
    \/ \E k \in 1..MaxTouches : ClipTouchEnd(k)
    \/ \E k \in 1..MaxTouches : ClipTouchCancel(k)
    \/ \E k \in 1..MaxTouches : LongPressFire(k)

SpecTimeline == InitEdit /\ [][NextTimeline]_vars

\* ------------------------------------------------------ SpecMarkers
\* The in and out markers (buttons, keys and marker drags) and the split, on
\* a loaded project of one clip.
NextMarkers ==
    \/ clips = <<>> /\ \E loaded \in TimelineProjects : LoadProjectFrom(loaded)
    \/ PointerFree /\ \E id \in 0..MaxClipIds : SelectClip(id)
    \/ PointerFree /\ Split
    \/ SetInPoint
    \/ SetOutPoint
    \/ ClearMarkers
    \/ PointerFree /\ \E type \in {"in", "out"} : MarkerMouseDown(type)
    \/ PointerFree /\ \E x \in RulerPositions : RulerMouseDown(x)
    \/ \E x \in RulerPositions : PlayheadMove(x)
    \/ \E d \in DragDeltas : GlobalMove(d)
    \/ GlobalUp

SpecMarkers == InitEdit /\ [][NextMarkers]_vars

\* ------------------------------------------------------ SpecTransport
\* The transport controls (play/pause, loop, seek) on a timeline that is empty
\* or holds one library clip, with an export that can be requested once.
\* The wall clock matters to the ticks only while the clock advances.
\* the time the ruler is clicked at while the transport is exercised
TransportSeekTimes == {15}

InitTransport ==
    /\ fps = DefaultFps
    /\ host = ChromeLike
    /\ InitProject

\* the transport is followed until the one export the bound allows is over
TransportLive == CanRequest \/ isExporting

\* time passes while playback (followed up to the export clock's bound) or an
\* export reads the wall clock
TransportClock ==
    \/ CanRequest /\ isPlaying /\ internalTime <= MaxExportClock
    \/ TimeObserved

NextTransport ==
    \/ CanRequest /\ clips = <<>>
           /\ \E d \in LibraryDurations : AddClip("video", d)
    \/ CanRequest /\ ToggleLoop
    \/ TransportLive /\ TogglePlay
    \/ TransportLive /\ \E t \in TransportSeekTimes : Seek(t)
    \/ ExportClick
    \/ StartExport
    \/ UnlockAudio
    \/ \E resolved \in BOOLEAN : InitContinue(resolved)
    \/ TransportClock /\ \E d \in Elapse : TimePasses(d)
    \/ RenderLoop
    \/ \E tm \in timers : TimerFire(tm)
    \/ \E r \in 1..Len(recorders), size \in {0, 1} : RecorderStopEvent(r, size)

SpecTransport == InitTransport /\ [][NextTransport]_vars

\* ------------------------------------------------------ SpecReinit
\* One export of one library clip during which App renders again before the
\* recorder exists: the "i" key runs handleSetInPoint, the render hands the
\* Player a new onExportFinish and the export effect runs again.
NextReinit ==
    \/ CanRequest /\ clips = <<>>
           /\ \E d \in LibraryDurations : AddClip("video", d)
    \/ ExportClick
    \/ StartExport
    \/ isExporting /\ mediaRecorderRef = NoRec
           /\ Len(pendingInits) <= MaxReruns /\ SetInPoint
    \/ UnlockAudio
    \/ \E resolved \in BOOLEAN : InitContinue(resolved)
    \/ TimeObserved /\ \E d \in ExportElapse : TimePasses(d)
    \/ RenderLoop
    \/ \E tm \in timers : TimerFire(tm)
    \/ \E r \in 1..Len(recorders), size \in {0, 1} : RecorderStopEvent(r, size)

SpecReinit == InitTransport /\ [][NextReinit]_vars

\* C35: at most one recorder is created and started for one export request.
C35_OneRecorderPerRequest ==
    \A a \in 1..MaxAttempts :
        Cardinality({r \in 1..Len(recorders) : recorders[r].attempt = a}) <= 1

\* ------------------------------------------------------ SpecClock
\* Everything that sets the master clock: ruler presses and playhead drags
\* with the pointer left of the ruler's origin, playback ticks with and
\* without looping, and an export whose start time is typed into the dialog.
\* the transport is exercised before the export dialog opens
ClockSetUp == CanRequest /\ ~showExportModal

NextClock ==
    \/ CanRequest /\ clips = <<>>
           /\ \E d \in LibraryDurations : AddClip("video", d)
    \/ ClockSetUp /\ ToggleLoop
    \/ ClockSetUp /\ TogglePlay
    \/ ClockSetUp /\ PointerFree
           /\ \E x \in RulerPositions : x < 0 /\ RulerMouseDown(x)
    \/ ClockSetUp /\ \E x \in RulerPositions : x < 0 /\ PlayheadMove(x)
    \/ GlobalUp
    \/ PointerFree /\ ExportClick
    \/ \E v \in ExportStartInputs : SetExportStart(v)
    \/ StartExport
    \/ UnlockAudio
    \/ \E resolved \in BOOLEAN : InitContinue(resolved)
    \/ TransportClock /\ \E d \in Elapse : TimePasses(d)
    \/ RenderLoop
    \/ \E tm \in timers : TimerFire(tm)
    \/ \E r \in 1..Len(recorders), size \in {0, 1} : RecorderStopEvent(r, size)

SpecClock == InitTransport /\ [][NextClock]_vars

\* C38: the master clock position is never negative.
C38_ClockNonNegative == internalTime >= 0

\* ------------------------------------------------------ claims on SpecTimeline
\* the press that started the drag in progress has not been released
PressHeld ==
    \/ touch.owner = MousePointer
    \/ touch.owner \in touch.down

\* C32: the controller emits a clip or marker mutation only between a press
\* that started a drag and its release.
C32_MutationsInsideDrag ==
    [][emitted'.op \in {"move", "trim-start", "trim-end", "move-in-marker",
                        "move-out-marker"}
       => dragState.isDragging /\ PressHeld]_vars

\* C33: a long press starts a drag only for a finger that is still down and
\* has not moved beyond the tolerance.
C33_LongPressHeld ==
    emitted.op = "long-press" =>
        /\ touch.fired \in touch.down
        /\ touch.fired \notin touch.moved

\* ------------------------------------------------------ claims on SpecMarkers
\* C34: after a split the right clip has fadeIn 0 and carries no transition.
C34_RightClipEntryReset ==
    emitted.op = "split" =>
        /\ FindClip(clips, emitted.newId).fadeIn = 0
        /\ FindClip(clips, emitted.newId).transition = NoTransition

\* C36: whenever both markers are set, the in point is not after the out
\* point.
C36_MarkersOrdered ==
    (inPoint # NoTime /\ outPoint # NoTime) => inPoint <= outPoint

\* a drag of the in marker that was stopped at the out point
C36_Witness ==
    /\ emitted.op = "move-in-marker"
    /\ outPoint # NoTime
    /\ inPoint = outPoint
    /\ dragState.originalOffset < inPoint

\* ------------------------------------------------------ claims on SpecTransport
\* C11: a tick taken while neither project.isPlaying nor the internal
\* exporting flag is set leaves the Player's clock where it was.
C11_IdleTickKeepsClock ==
    [][(/\ emitted'.op \in {"render-run", "render-scrub"}
        /\ ~isPlaying
        /\ ~isInternalExporting) => internalTime' = internalTime]_vars

\* an idle tick was taken with the clock away from 0
C11_Witness ==
    /\ emitted.op = "render-scrub"
    /\ ~isPlaying
    /\ ~isInternalExporting
    /\ internalTime > 0

\* the clock value a tick of normal playback reaches before the loop rule
TickTarget == internalTime + PlaybackDt(World) * PlaybackSpeed

\* C12 as stated: with looping on and the project playing, a tick that brings
\* the clock to or past contentDuration sets it to 0, and a tick of an export
\* never moves the clock backwards.
C12_LoopWrap ==
    /\ [][(/\ emitted'.op = "render-run"
           /\ isLooping /\ isPlaying /\ ~isInternalExporting
           /\ TickTarget >= MaxContentTime(clips))
          => internalTime' = 0]_vars
    /\ [][(emitted'.op = "render-run" /\ isInternalExporting)
          => internalTime' >= internalTime]_vars

\* C12 amended: the wrap needs a timeline that has content
\* (contentDuration > 0); on an empty timeline the clock keeps advancing.
C12_LoopWrapWithContent ==
    /\ [][(/\ emitted'.op = "render-run"
           /\ isLooping /\ isPlaying /\ ~isInternalExporting
           /\ MaxContentTime(clips) > 0
           /\ TickTarget >= MaxContentTime(clips))
          => internalTime' = 0]_vars
    /\ [][(/\ emitted'.op = "render-run"
           /\ isLooping /\ isPlaying /\ ~isInternalExporting
           /\ MaxContentTime(clips) = 0)
          => internalTime' = TickTarget]_vars
    /\ [][(emitted'.op = "render-run" /\ isInternalExporting)
          => internalTime' >= internalTime]_vars

\* an export tick has taken the clock to the end of the content with looping on
C12_Witness ==
    /\ emitted.op = "render-run"
    /\ isInternalExporting
    /\ isLooping
    /\ MaxContentTime(clips) > 0
    /\ internalTime >= MaxContentTime(clips)

\* C13: outside an export, once a seek to t is applied the Player's clock
\* equals t, whether the project plays or not.
C13_SeekSetsClock ==
    (emitted.op = "seek" /\ ~isExporting) => internalTime = emitted.t

\* C14: a seek request made while an export is in progress changes neither
\* project.currentTime nor the Player's clock.
C14_SeekIgnoredInExport ==
    [][(emitted'.op = "seek" /\ isExporting)
       => currentTime' = currentTime /\ internalTime' = internalTime]_vars

\* a seek to another time was requested during an export
C14_Witness ==
    /\ emitted.op = "seek"
    /\ isExporting
    /\ emitted.t # currentTime

\* C15: while isExporting is set project.isPlaying is false, and a play/pause
\* request made during the export leaves it false.
C15_ExportNeverPlays ==
    /\ [](isExporting => ~isPlaying)
    /\ [][(emitted'.op = "toggle-play" /\ isExporting) => ~isPlaying']_vars

\* play/pause was requested during an export
C15_Witness ==
    /\ emitted.op = "toggle-play"
    /\ isExporting
    /\ ~isPlaying

\* C24: a tick taken while the export is active does not call the host's
\* onTimeUpdate.
C24_NoTimeUpdateInExport ==
    [][(emitted'.op = "render-run" /\ isInternalExporting)
       => ~emitted'.timeUpdate]_vars

\* C26: a tick that follows a seek made while Playing, with no time elapsed
\* since the seek and no loop, leaves the clock at the seek target: it
\* advances from the target by the time elapsed since the seek.
C26_SeekResetsReference ==
    [][(/\ emitted.op = "seek" /\ isPlaying /\ ~isExporting /\ ~isLooping
        /\ emitted'.op = "render-run")
       => internalTime' = emitted.t]_vars

\* ------------------------------------------------------ claims on SpecCompose
\* the entry ramp of the fade formula: transition.duration if the clip has a
\* transition, else fadeIn
EntryRamp(c) ==
    IF c.transition.type # "none" THEN c.transition.duration ELSE c.fadeIn

\* the fade formula at clock t: the fraction of the entry ramp passed, else
\* the fraction of the exit ramp (fadeOut) left, else 1
FadeFormula(c, t) ==
    IF EntryRamp(c) > 0 /\ t - c.offset < EntryRamp(c)
    THEN <<t - c.offset, EntryRamp(c)>>
    ELSE IF c.fadeOut > 0 /\ SpanEnd(c) - t < c.fadeOut
    THEN <<SpanEnd(c) - t, c.fadeOut>>
    ELSE <<1, 1>>

\* two fractions with the same value
SameFraction(a, b) == a[1] * b[2] = b[1] * a[2]

IndexOf(id) == CHOOSE i \in 1..Len(clips) : clips[i].id = id

\* C28: the clips a tick draws are active clips; a video clip is drawn before
\* every text clip; of two video clips the one on the lower track is drawn
\* first, and on the same track the one earlier in the array; every active
\* text clip is drawn.
C28_DrawOrder ==
    emitted.op \in {"render-run", "render-scrub"} =>
        /\ \A p \in 1..Len(emitted.drawn) :
               /\ HasClip(clips, emitted.drawn[p])
               /\ IsActive(FindClip(clips, emitted.drawn[p]), emitted.t)
               /\ FindClip(clips, emitted.drawn[p]).type \in {"video", "text"}
        /\ \A p, q \in 1..Len(emitted.drawn) :
               p < q =>
                  LET a == FindClip(clips, emitted.drawn[p])
                      b == FindClip(clips, emitted.drawn[q])
                  IN  /\ a.id # b.id
                      /\ ~(a.type = "text" /\ b.type = "video")
                      /\ (a.type = "video" /\ b.type = "video")
                         => \/ a.track < b.track
                            \/ /\ a.track = b.track
                               /\ IndexOf(a.id) < IndexOf(b.id)
        /\ \A i \in 1..Len(clips) :
               (clips[i].type = "text" /\ IsActive(clips[i], emitted.t))
               => \E p \in 1..Len(emitted.drawn) :
                      emitted.drawn[p] = clips[i].id

\* a tick drew two video clips of one track, a video clip of a higher track
\* that comes earlier in the array, and a text clip that comes first in it
C28_Witness ==
    /\ emitted.op \in {"render-run", "render-scrub"}
    /\ Len(emitted.drawn) >= 4
    /\ \E p, q \in 1..Len(emitted.drawn) :
           /\ p < q
           /\ FindClip(clips, emitted.drawn[p]).type = "video"
           /\ FindClip(clips, emitted.drawn[q]).type = "video"
           /\ FindClip(clips, emitted.drawn[p]).track
                  = FindClip(clips, emitted.drawn[q]).track
    /\ \E p, q \in 1..Len(emitted.drawn) :
           /\ p < q
           /\ FindClip(clips, emitted.drawn[p]).track
                  < FindClip(clips, emitted.drawn[q]).track
           /\ IndexOf(emitted.drawn[p]) > IndexOf(emitted.drawn[q])
           /\ FindClip(clips, emitted.drawn[q]).type = "video"
    /\ FindClip(clips, emitted.drawn[Len(emitted.drawn)]).type = "text"
    /\ IndexOf(emitted.drawn[Len(emitted.drawn)]) = 1

\* ------------------------------------------------------ claims on SpecEncoder
\* C16: when the chunks accumulated at finalization total zero bytes the
\* attempt fails: onExportFinish is called with null (a call is counted and
\* no artifact is recorded), the pipeline is idle afterwards and the step
\* starts no recorder.
C16_EmptyBlobFails ==
    [][(emitted'.op = "recorder-stopped" /\ emitted'.blob = 0) =>
        /\ finishCalls'[AttemptOf(emitted'.id)] >= 1
        /\ finishCalls'[AttemptOf(emitted'.id)] =
               Min(finishCalls[AttemptOf(emitted'.id)] + 1, 2)
        /\ artifacts' = artifacts
        /\ ~isExporting'
        /\ ~isInternalExporting'
        /\ mediaRecorderRef' = NoRec
        /\ Len(recorders') = Len(recorders)
        /\ \A r \in 1..Len(recorders) :
               recorders'[r].state = "recording"
                   => recorders[r].state = "recording"
        /\ pendingInits' = pendingInits]_vars

\* a recorder that was recording frames stopped with an empty blob
C16_Witness ==
    /\ emitted.op = "recorder-stopped"
    /\ emitted.blob = 0
    /\ frames > 0
    /\ \A a \in 1..MaxAttempts : ~artifacts[a]

\* the entries of optionsToTry
PreferenceList == {OptionsToTry[i] : i \in 1..Len(OptionsToTry)}

\* C17: the mime type reported with an artifact is a member of the
\* preference list, and it is the first entry, in list order, that the host
\* supports.
C17_FirstSupportedMime ==
    (emitted.op = "recorder-stopped" /\ emitted.blob > 0) =>
        /\ emitted.mime \in PreferenceList
        /\ \E i \in host.supported :
               /\ emitted.mime = OptionsToTry[i]
               /\ \A j \in host.supported : i <= j

\* C18: on a host that supports no entry of the preference list no recorder
\* is made and no artifact is produced.
C18_NoEncoderAborts ==
    host.supported = {} =>
        /\ recorders = <<>>
        /\ \A a \in 1..MaxAttempts : ~artifacts[a]

\* ------------------------------------------------------ claims on SpecEdit
\* C1: after the reconcile step the live decode units (keys of videoRefs and
\* of audioRefs) are exactly the ids of the non-text clips of the descriptor.
C1_UnitsMatchClips ==
    videoRefs \cup audioRefs =
        {clips[i].id : i \in {j \in 1..Len(clips) : clips[j].type # "text"}}

\* a clip was deleted and a unit is still live
C1_Witness ==
    /\ Len(clips) < nextId - 1
    /\ videoRefs \cup audioRefs # {}

\* C8: a split of clip C at playhead time t yields a left clip spanning
\* [C.offset, t) and a right clip spanning [t, C.offset + (C.end - C.start)),
\* with left.end = right.start, left.start = C.start and right.end = C.end.
C8_SplitTiles ==
    emitted.op = "split" =>
        LET left == FindClip(clips, emitted.id)
            right == FindClip(clips, emitted.newId)
        IN  /\ left.offset = emitted.offset
            /\ SpanEnd(left) = emitted.t
            /\ right.offset = emitted.t
            /\ SpanEnd(right) = emitted.offset + (emitted.end - emitted.start)
            /\ left.end = right.start
            /\ left.start = emitted.start
            /\ right.end = emitted.end

\* a clip whose start had been trimmed was split
C8_Witness ==
    /\ emitted.op = "split"
    /\ emitted.start > 0
    /\ emitted.t > emitted.offset

\* C9: a trim-start or trim-end drag never emits a clip with
\* trimStart >= trimEnd - 0.1 and never emits a negative timelineOffset.
C9_TrimClamp ==
    emitted.op \in {"trim-start", "trim-end"} =>
        LET c == FindClip(clips, dragState.clipId)
        IN  /\ ~(c.start >= c.end - MinClipLen)
            /\ c.offset >= 0

\* C10: every clip of the descriptor satisfies
\* 0 <= trimStart < trimEnd <= sourceDuration and timelineOffset >= 0.
C10_ClipInvariants ==
    \A i \in 1..Len(clips) :
        /\ 0 <= clips[i].start
        /\ clips[i].start < clips[i].end
        /\ clips[i].end <= clips[i].duration
        /\ clips[i].offset >= 0

\* C19: a split requested with no selected clip, or with the playhead not
\* strictly inside the selected clip's span, leaves the clip list and the
\* selection unchanged.
C19_SplitRejected ==
    [][(/\ emitted'.op \in {"split", "split-rejected"}
        /\ \/ selectedClipId = NoId
           \/ ~HasClip(clips, selectedClipId)
           \/ LET c == FindClip(clips, selectedClipId)
              IN  \/ currentTime - c.offset <= 0
                  \/ currentTime - c.offset >= c.end - c.start)
          => /\ clips' = clips
             /\ selectedClipId' = selectedClipId]_vars

\* a split of a selected clip was rejected because of the playhead
C19_Witness ==
    /\ emitted.op = "split-rejected"
    /\ selectedClipId # NoId
    /\ HasClip(clips, selectedClipId)

\* C20: a move or trim whose result breaks a clip invariant is rejected, the
\* clip list keeps its prior value.
C20_InvalidMutationRejected ==
    [][emitted'.op \in {"move", "trim-start", "trim-end"}
          => \/ clips' = clips
             \/ LET c == FindClip(clips', dragState.clipId)
                IN  /\ 0 <= c.start
                    /\ c.start < c.end
                    /\ c.end <= c.duration
                    /\ c.offset >= 0]_vars

\* C21: after a transition is applied to the selected clip, the clip's
\* transition duration (kept in fadeIn) does not exceed its on-timeline span
\* and its offset is not below 0, or the clips are left as they were.
C21_TransitionFits ==
    [][emitted'.op = "transition" =>
        \/ clips' = clips
        \/ /\ FindClip(clips', selectedClipId).fadeIn <=
                  FindClip(clips', selectedClipId).end -
                  FindClip(clips', selectedClipId).start
           /\ FindClip(clips', selectedClipId).offset >= 0]_vars

\* C25: a drag of a clip's start handle leaves the clip with start >= 0, with
\* its offset shifted from the offset at the press by what its start was
\* shifted from the start at the press, and with its timeline end
\* (offset + end - start) where it was.
C25_TrimStartKeepsEnd ==
    [][emitted'.op = "trim-start" =>
        /\ FindClip(clips', dragState.clipId).start >= 0
        /\ FindClip(clips', dragState.clipId).offset - dragState.originalOffset
               = FindClip(clips', dragState.clipId).start
                     - dragState.originalStart
        /\ SpanEnd(FindClip(clips', dragState.clipId))
               = SpanEnd(FindClip(clips, dragState.clipId))]_vars

\* ------------------------------------------------------ claims on SpecSync
\* C23: the unit of a clip whose source failed to open has no gain node in
\* the audio graph and is not drawn by a tick.
C23_FailedUnitExcluded ==
    \A id \in DOMAIN units :
        units[id].failed =>
            /\ id \notin gainNodes
            /\ \A i \in 1..Len(emitted.drawn) : emitted.drawn[i] # id

\* C29: in a running tick, the paused unit of an active clip is sought to the
\* target source time only if its drift exceeds 0.1 s (10), and it is
\* playing after the tick.
C29_PausedUnitResumes ==
    [][emitted'.op = "render-run" =>
        \A i \in 1..Len(clips) :
            (/\ IsActive(clips[i], emitted'.t)
             /\ clips[i].id \in DOMAIN units
             /\ units[clips[i].id].paused)
            => /\ units'[clips[i].id].currentTime
                      # units[clips[i].id].currentTime
                  => Abs(units[clips[i].id].currentTime
                           - TargetClipTime(clips[i], emitted'.t)) > 10
               /\ ~units'[clips[i].id].paused]_vars

\* C30 as stated: after a tick, the unit of every clip that starts within
\* the next 1 s of the clock is paused and positioned exactly at the clip's
\* start.
C30_UpcomingParkedExactly ==
    emitted.op \in {"render-run", "render-scrub"} =>
        \A i \in 1..Len(clips) :
            (IsUpcoming(clips[i], emitted.t) /\ clips[i].id \in DOMAIN units)
            => /\ units[clips[i].id].paused
               /\ units[clips[i].id].currentTime = clips[i].start

\* C30 amended: the unit is paused and within 0.05 s (5) of the clip's start.
C30_UpcomingParked ==
    emitted.op \in {"render-run", "render-scrub"} =>
        \A i \in 1..Len(clips) :
            (IsUpcoming(clips[i], emitted.t) /\ clips[i].id \in DOMAIN units)
            => /\ units[clips[i].id].paused
               /\ Abs(units[clips[i].id].currentTime - clips[i].start) <= 5

\* a tick has left the unit of an upcoming clip near its start but not on it
C30_Witness ==
    /\ emitted.op \in {"render-run", "render-scrub"}
    /\ \E i \in 1..Len(clips) :
           /\ IsUpcoming(clips[i], emitted.t)
           /\ clips[i].id \in DOMAIN units
           /\ units[clips[i].id].paused
           /\ units[clips[i].id].currentTime # clips[i].start

\* C31: after a tick, the unit of every clip that is neither active nor
\* upcoming at the tick's clock is paused and positioned at the clip's start.
C31_InactiveUnitReset ==
    emitted.op \in {"render-run", "render-scrub"} =>
        \A i \in 1..Len(clips) :
            (/\ clips[i].id \in DOMAIN units
             /\ ~IsActive(clips[i], emitted.t)
             /\ ~IsUpcoming(clips[i], emitted.t))
            => /\ units[clips[i].id].paused
               /\ units[clips[i].id].currentTime = clips[i].start

\* the time playback stops at: the end of the last clip, or the workspace
\* duration when the timeline is empty
StopTime ==
    IF MaxContentTime(clips) > 0 THEN MaxContentTime(clips) ELSE pDuration

\* C37: with looping off and no export, the tick that ends playback leaves
\* project.currentTime at the stop time.
C37_StopsAtContentEnd ==
    (/\ emitted.op = "render-run"
     /\ ~isPlaying
     /\ ~isLooping
     /\ ~isExporting)
    => currentTime = StopTime

\* C22: a clip whose muted flag is set has no gain node in the audio graph.
C22_MutedNotRouted ==
    \A i \in 1..Len(clips) : clips[i].muted => clips[i].id \notin gainNodes

\* the active clips that have a media element, at the clock the last tick
\* composited
ActiveUnits ==
    {i \in 1..Len(clips) : /\ clips[i].id \in DOMAIN units
                           /\ IsActive(clips[i], emitted.t)}

DriftOf(i) ==
    Abs(units[clips[i].id].currentTime - TargetClipTime(clips[i], emitted.t))

\* C4 as stated: after each compositor tick every active clip's unit is
\* within 0.25 s of its target source time while the engine is running and
\* within 0.05 s while it is scrubbing.
C4_AVSync ==
    /\ emitted.op = "render-run" =>
          \A i \in ActiveUnits : DriftOf(i) <= LooseTol
    /\ emitted.op = "render-scrub" =>
          \A i \in ActiveUnits : DriftOf(i) <= ParkTol

\* C4 amended: after each compositor tick every active clip's unit is within
\* 0.25 s of its target source time while the engine is running, unless the
\* unit is playing with a seek still in flight (the tick leaves such a unit
\* alone), and within 0.05 s while the engine is scrubbing.
C4_AVSyncUnlessSeeking ==
    /\ emitted.op = "render-run" =>
          \A i \in ActiveUnits :
              \/ DriftOf(i) <= LooseTol
              \/ (~units[clips[i].id].paused /\ units[clips[i].id].seeking)
    /\ emitted.op = "render-scrub" =>
          \A i \in ActiveUnits : DriftOf(i) <= ParkTol

\* a running tick left a playing unit, not seeking, with a drift it tolerates
C4_Witness ==
    /\ emitted.op = "render-run"
    /\ \E i \in ActiveUnits :
          /\ ~units[clips[i].id].paused
          /\ ~units[clips[i].id].seeking
          /\ DriftOf(i) > ParkTol
          /\ DriftOf(i) <= LooseTol

\* ------------------------------------------------------ claims on SpecExport
\* round((b - a) * f) for the requested range and frame rate
ExpectedFrames ==
    (2 * (exportSettings.end - exportSettings.start) * fps + 100) \div 200

\* C2: an export of [a, b) at frame rate f has composited round((b - a) * f)
\* frames, give or take one, between the start of the recorder and the stop
\* the grace timer issues.
C2_FrameCount ==
    emitted.op = "timer-stop" =>
        /\ frames >= ExpectedFrames - 1
        /\ frames <= ExpectedFrames + 1

\* C3: while the export is active every tick of the render loop that moves
\* the master clock moves it forward by exactly 1 / frameRate seconds,
\* whatever wall-clock time has elapsed since the tick before.
C3_FixedStep ==
    [][(/\ isInternalExporting
        /\ emitted'.op = "render-run"
        /\ internalTime' # internalTime)
          => internalTime' = internalTime + FrameStep]_vars

\* two export ticks have advanced the clock
C3_Witness ==
    /\ isInternalExporting
    /\ emitted.op = "render-run"
    /\ internalTime >= exportSettings.start + 2 * FrameStep

\* C5: each export attempt stops its recorder at most once and invokes
\* onExportFinish at most once.
C5_AtMostOnce ==
    \A a \in 1..MaxAttempts : stopCalls[a] <= 1 /\ finishCalls[a] <= 1

\* C6: an export cancelled from outside before the clock reached the end
\* time leaves no chunks, is back to Idle and never reports an artifact.
C6_CancelNoArtifact ==
    \A a \in 1..MaxAttempts :
        cancelledEarly[a] => /\ ~artifacts[a]
                             /\ (emitted.op = "cancel" =>
                                    /\ recordedChunks = 0
                                    /\ ~isInternalExporting
                                    /\ mediaRecorderRef = NoRec)

\* the phase of the export pipeline
Phase ==
    IF ~isExporting THEN 0
    ELSE IF ~isInternalExporting THEN 1
    ELSE IF ~isStopping THEN 2
    ELSE 3

\* C7: the pipeline moves through Idle, Initializing, Recording, Finalizing
\* in that order, going back only to Idle; isExporting is cleared only by a
\* step that invokes onExportFinish; and once isExporting is true it is
\* eventually false again.
C7_ExportTerminates ==
    /\ [][Phase' >= Phase \/ Phase' = 0]_vars
    /\ [][(isExporting /\ ~isExporting')
            => \E a \in 1..MaxAttempts :
                   finishCalls'[a] > finishCalls[a] \/ finishCalls[a] >= 2]_vars
    /\ (isExporting ~> ~isExporting)

\* an attempt recorded to its end and reported an artifact
C7_Witness ==
    /\ ~isExporting
    /\ emitted.op = "recorder-stopped"
    /\ artifacts[1]
    /\ isStopping
    /\ ~cancelledEarly[1]

====
